---- MODULE Spec2Model ----
(***************************************************************************)
(* Model of MSim: the hexa stat leveling core and framework                *)
(* (utils/env/hexastats.py), the spell trace enhancement framework         *)
(* (utils/env/spelltrace.py), the argument contract of the engines         *)
(* (utils/framework.py) and the simulation harness (simulator.py).         *)
(*                                                                         *)
(* The harness specification runs the engine of test_markovsim.py whole.   *)
(* Of a trial of the two seeded engines it keeps the draws taken from the  *)
(* rng and the resets or restarts; the trials themselves are the subject   *)
(* of the specifications of the two engines.                               *)
(*                                                                         *)
(* Random draws are floats in [0,1) in the program.  The leveling engine   *)
(* compares them with the probability table, whose entries are multiples   *)
(* of 0.05, so a draw is modelled as an integer number of hundredths       *)
(* (0..99).  The draw sets leave out 60: at u = 0.6 and P = 0.2 the float  *)
(* subtraction 0.6 - 0.2 rounds below 0.4 and the float comparison differs *)
(* from the comparison of the decimal values; at every other hundredth     *)
(* the two agree.                                                          *)
(***************************************************************************)
EXTENDS Integers, Sequences, FiniteSets, TLC

VARIABLES
    nodeLevel,      \* HexaStatCore._nodeLevel
    statLevels,     \* HexaStatCore._statLevels, <<primary, second, third>>
    coreRet,        \* outcome of the last HexaStatCore call
    loadedPolicy,   \* HexaStatFramework.loadedPolicy
    lastPolicyDir,  \* HexaStatFramework.lastPolicyDir
    policy,         \* HexaStatFramework.policy
    hpc,            \* position of HexaStatFramework.performTrial
    hargs,          \* its arguments (target, policyPath, erdaFragLim)
    totCost,        \* performTrial local totCost
    totResets,      \* performTrial local totResets
    numEnhances,    \* performTrial local numEnhances
    hexaRet,        \* what the last performTrial call returned or raised
    injected,       \* history: forceInjectPolicy was called on the instance
    lastInject,     \* history: the table injected last, the call after it,
                    \* and whether that call fell back to the default policy
    greedyAfterInno,\* SpellTraceFramework.greedyAfterInno
    spc,            \* position of SpellTraceFramework.performTrial
    sargs,          \* its arguments
    sl,             \* its local variables
    sRet,           \* the dict it returned
    curFramework,   \* MarkovSim.curFramework: the engine selected
    numExecutions,  \* DummyFramework.numExecutions
    rngPos,         \* per seeded engine: the values its rng has produced
    mpc,            \* position of the MarkovSim call
    mcall,          \* the MarkovSim call in progress
    resList,        \* simulate local resList
    trial,          \* the trial of a seeded engine in progress
    mRet,           \* what the last MarkovSim call returned or raised
    simHist         \* history: trials invoked, trials requested, draws read

coreVars == <<nodeLevel, statLevels, coreRet>>
hexaVars == <<loadedPolicy, lastPolicyDir, policy, hpc, hargs, totCost,
              totResets, numEnhances, hexaRet, injected, lastInject>>

stVars == <<greedyAfterInno, spc, sargs, sl, sRet>>

simVars == <<curFramework, numExecutions, rngPos, mpc, mcall, resList,
             trial, mRet, simHist>>

vars == <<coreVars, hexaVars, stVars, simVars>>

----------------------------------------------------------------------------
(* HexaStatCore: constants                                                 *)

INIT_LEVEL == 1
MIN_RESET_LEVEL == 10
MAX_LEVEL == 20
MAX_STAT_LEVEL == 10

\* positions in statLevels (the source counts from 0, sequences from 1)
PRIM_ARG_POS == 1
SEC_ARG_POS == 2
THIRD_ARG_POS == 3

\* tables indexed by the primary stat level 1..10 (index 0 is None in the
\* source); probabilities in hundredths
P_SUCC_VALS == <<35, 35, 20, 20, 20, 20, 15, 10, 5, 0>>
PB_ERDA_FRAG_COST_VALS == <<10, 10, 20, 20, 20, 20, 30, 40, 50, 50>>
PB_ERDA_COST_VALS == <<5, 5, 5, 5, 5, 5, 5, 5, 5, 5>>

\* one unit of probability: draws and table entries are hundredths
ONE == 100

\* draws handed to a stand-alone core: both sides of every threshold of
\* the selection rule (P and P + (1 - P)/2 for each table entry)
CoreDraws == {0, 4, 5, 9, 10, 14, 15, 19, 20, 34, 35, 49, 50, 52, 53, 54,
              55, 57, 58, 59, 61, 67, 68, 99}

----------------------------------------------------------------------------
(* HexaStatCore: properties and methods                                    *)

primaryStatLevel(stats) == stats[PRIM_ARG_POS]
secondStatLevel(stats) == stats[SEC_ARG_POS]
thirdStatLevel(stats) == stats[THIRD_ARG_POS]
curFragCost(stats) == PB_ERDA_FRAG_COST_VALS[primaryStatLevel(stats)]
curStoneCost(stats) == PB_ERDA_COST_VALS[primaryStatLevel(stats)]

\* updateInd that gives the primary stat the draw equal to its rate
updateIndPrimInclusive(stats, curProb) ==
    LET p == P_SUCC_VALS[primaryStatLevel(stats)] IN
    IF ~(0 <= curProb /\ curProb < ONE) THEN 0
    ELSE IF primaryStatLevel(stats) < MAX_STAT_LEVEL /\ curProb <= p
         THEN PRIM_ARG_POS
    ELSE IF secondStatLevel(stats) = 10 /\ thirdStatLevel(stats) = 10
         THEN PRIM_ARG_POS
    ELSE IF secondStatLevel(stats) = 10 THEN THIRD_ARG_POS
    ELSE IF thirdStatLevel(stats) = 10 THEN SEC_ARG_POS
    ELSE IF 0 <= curProb - p /\ 2 * (curProb - p) < ONE - p
         THEN SEC_ARG_POS
    ELSE THIRD_ARG_POS

\* updateInd that gives the first secondary stat the draw in the middle of
\* the remaining mass
updateIndHalfInclusive(stats, curProb) ==
    LET p == P_SUCC_VALS[primaryStatLevel(stats)] IN
    IF ~(0 <= curProb /\ curProb < ONE) THEN 0
    ELSE IF primaryStatLevel(stats) < MAX_STAT_LEVEL /\ curProb < p
         THEN PRIM_ARG_POS
    ELSE IF secondStatLevel(stats) = 10 /\ thirdStatLevel(stats) = 10
         THEN PRIM_ARG_POS
    ELSE IF secondStatLevel(stats) = 10 THEN THIRD_ARG_POS
    ELSE IF thirdStatLevel(stats) = 10 THEN SEC_ARG_POS
    ELSE IF 0 <= curProb - p /\ 2 * (curProb - p) <= ONE - p
         THEN SEC_ARG_POS
    ELSE THIRD_ARG_POS

\* updateInd without the tests for a secondary stat that is already maxed
updateIndNoMaxCheck(stats, curProb) ==
    LET p == P_SUCC_VALS[primaryStatLevel(stats)] IN
    IF ~(0 <= curProb /\ curProb < ONE) THEN 0
    ELSE IF primaryStatLevel(stats) < MAX_STAT_LEVEL /\ curProb < p
         THEN PRIM_ARG_POS
    ELSE IF 0 <= curProb - p /\ 2 * (curProb - p) < ONE - p
         THEN SEC_ARG_POS
    ELSE THIRD_ARG_POS

\* updateInd: the position of the stat to raise, 0 when the draw is
\* rejected (RuntimeError).  "x < (1 - p)/2" is stated as 2x < 1 - p.
updateInd(stats, curProb) ==
    LET p == P_SUCC_VALS[primaryStatLevel(stats)] IN
    IF ~(0 <= curProb /\ curProb < ONE) THEN 0
    ELSE IF primaryStatLevel(stats) < MAX_STAT_LEVEL /\ curProb < p
         THEN PRIM_ARG_POS
    ELSE IF secondStatLevel(stats) = 10 /\ thirdStatLevel(stats) = 10
         THEN PRIM_ARG_POS
    ELSE IF secondStatLevel(stats) = 10 THEN THIRD_ARG_POS
    ELSE IF thirdStatLevel(stats) = 10 THEN SEC_ARG_POS
    ELSE IF 0 <= curProb - p /\ 2 * (curProb - p) < ONE - p
         THEN SEC_ARG_POS
    ELSE THIRD_ARG_POS

\* levelNode that reads the costs after it raised the stat
levelNodeCostAfter(level, stats, curRoll) ==
    IF level = MAX_LEVEL
    THEN [level |-> level, stats |-> stats, exc |-> "LevelCapExceeded",
          draws |-> 0, cost |-> <<0, 0>>]
    ELSE LET ind == updateInd(stats, curRoll) IN
         IF ind = 0
         THEN [level |-> level, stats |-> stats, exc |-> "BadProbability",
               draws |-> 1, cost |-> <<0, 0>>]
         ELSE LET raised == [stats EXCEPT ![ind] = @ + 1] IN
              [level |-> level + 1, stats |-> raised,
               exc |-> "none", draws |-> 1,
               cost |-> <<curStoneCost(raised), curFragCost(raised)>>]

\* levelNode that draws and levels before looking at the level cap
levelNodeNoCap(level, stats, curRoll) ==
    LET ind == updateInd(stats, curRoll) IN
    [level |-> level + 1,
     stats |-> [stats EXCEPT ![ind] = @ + 1],
     exc |-> "none", draws |-> 1,
     cost |-> <<curStoneCost(stats), curFragCost(stats)>>]

\* levelNode: the core after the call, the exception raised, the number of
\* draws taken from the rng and the returned (stone cost, fragment cost)
levelNode(level, stats, curRoll) ==
    IF level = MAX_LEVEL
    THEN [level |-> level, stats |-> stats, exc |-> "LevelCapExceeded",
          draws |-> 0, cost |-> <<0, 0>>]
    ELSE LET ind == updateInd(stats, curRoll) IN
         IF ind = 0
         THEN [level |-> level, stats |-> stats, exc |-> "BadProbability",
               draws |-> 1, cost |-> <<0, 0>>]
         ELSE [level |-> level + 1,
               stats |-> [stats EXCEPT ![ind] = @ + 1],
               exc |-> "none", draws |-> 1,
               cost |-> <<curStoneCost(stats), curFragCost(stats)>>]

\* resetNode that resets at any level
resetNodeNoThreshold(level, stats) ==
    [level |-> INIT_LEVEL, stats |-> <<INIT_LEVEL, INIT_LEVEL, INIT_LEVEL>>,
     exc |-> "none"]

\* resetNode: the core after the call and the exception raised
resetNode(level, stats) ==
    IF level < MIN_RESET_LEVEL
    THEN [level |-> level, stats |-> stats, exc |-> "ResetTooEarly"]
    ELSE [level |-> INIT_LEVEL,
          stats |-> <<INIT_LEVEL, INIT_LEVEL, INIT_LEVEL>>,
          exc |-> "none"]

----------------------------------------------------------------------------
(* HexaStatFramework: policies                                             *)

\* the state space of a policy: (node level, primary stat level)
PolicyKeys == (1..MAX_LEVEL) \X (1..MAX_STAT_LEVEL)

\* A policy object: tbl holds the entries, dflt tells whether the object
\* is a defaultdict(lambda: False) (a plain dict raises KeyError on a key
\* it does not hold).  A defaultdict stores False under a key when it is
\* first looked up; no later lookup can tell that entry from a missing
\* one, and the model leaves it out.
EmptyDefaultDict == [dflt |-> TRUE, tbl |-> [k \in {} |-> FALSE]]

\* test_core_framework_with_policy_limit's fakeDict: reset at every state
\* with node level >= 10
ResetFrom10DefaultDict ==
    [dflt |-> TRUE,
     tbl |-> [k \in (MIN_RESET_LEVEL..MAX_LEVEL) \X (1..MAX_STAT_LEVEL)
                  |-> TRUE]]

\* a plain dict that holds the level-20 decisions only
Level20PlainDict ==
    [dflt |-> FALSE,
     tbl |-> [k \in {MAX_LEVEL} \X (1..MAX_STAT_LEVEL) |-> k[2] < 2]]

\* a defaultdict asking for a reset at node level 5
ResetAt5DefaultDict ==
    [dflt |-> TRUE, tbl |-> [k \in {5} \X (1..MAX_STAT_LEVEL) |-> TRUE]]

\* a defaultdict asking for a reset when the primary stat is still 1 at
\* node level 10
ResetAt10Prim1DefaultDict ==
    [dflt |-> TRUE, tbl |-> [k \in {<<MIN_RESET_LEVEL, 1>>} |-> TRUE]]

\* the files a policy path can name
PolicyPaths == {"", "list.pkl", "locked.pkl", "fake.pkl", "dict.pkl"}

\* what open() and pickle.load() find at a path
PolicyFile(path) ==
    CASE path = "" -> [kind |-> "missing"]
      [] path = "list.pkl" -> [kind |-> "notdict"]
      [] path = "locked.pkl" -> [kind |-> "unreadable"]
      [] path = "fake.pkl" -> [kind |-> "dict", obj |-> ResetFrom10DefaultDict]
      [] path = "dict.pkl" -> [kind |-> "dict", obj |-> Level20PlainDict]

\* the tables a caller injects
InjectedPolicies ==
    {ResetAt5DefaultDict, ResetAt10Prim1DefaultDict, Level20PlainDict}

\* self.policy[key]: "reset" for a true entry, "enhance" for a false one
\* or a defaulted one, "KeyError" when a plain dict lacks the key
policyLookup(pol, key) ==
    IF key \in DOMAIN pol.tbl
    THEN (IF pol.tbl[key] THEN "reset" ELSE "enhance")
    ELSE IF pol.dflt THEN "enhance" ELSE "KeyError"

\* attemptPolicyImport: the policy after the call and the exception
\* raised.  Only FileNotFoundError is turned into RuntimeError; another
\* OSError of open() and the TypeError for a non-dict object leave as
\* they are.
attemptPolicyImport(pol, policyPath) ==
    LET f == PolicyFile(policyPath) IN
    CASE f.kind = "missing" -> [policy |-> pol, exc |-> "RuntimeError"]
      [] f.kind = "unreadable" -> [policy |-> pol, exc |-> "OSError"]
      [] f.kind = "notdict" -> [policy |-> pol, exc |-> "TypeError"]
      [] f.kind = "dict" -> [policy |-> f.obj, exc |-> "none"]

\* updatePolicyTarget: policy[(20, i)] = True for i in range(1, targetLevel)
updatePolicyTarget(pol, targetLevel) ==
    LET new == {MAX_LEVEL} \X (1..(targetLevel - 1)) IN
    [pol EXCEPT !.tbl = [k \in (DOMAIN pol.tbl) \cup new |->
                            IF k \in new THEN TRUE ELSE pol.tbl[k]]]

----------------------------------------------------------------------------
(* HexaStatFramework.performTrial                                          *)

\* bounds of the inputs and of the reset counter
MaxTarget == 3
MaxResets == 1

Targets == (1..MaxTarget) \cup {MAX_STAT_LEVEL + 1}
FragLimits == {-1, 0, 35, 100}

\* draws of the framework's own rng during a trial
TrialDraws == {0, 50}

\* performTrial up to the loop: the argument checks and the policy
\* refresh.  Gives the instance fields after it, the exception raised, and
\* whether the except clause of line 239 ran (fellBack).
performTrialEntry(loaded, lastDir, pol, target, policyPath, erdaFragLim) ==
    IF target > MAX_STAT_LEVEL \/ erdaFragLim < 0
    THEN [loaded |-> loaded, lastDir |-> lastDir, policy |-> pol,
          exc |-> "ValueError", fellBack |-> FALSE]
    ELSE IF ~loaded \/ lastDir # policyPath
    THEN LET imp == attemptPolicyImport(pol, policyPath) IN
         IF imp.exc = "RuntimeError"
         THEN [loaded |-> TRUE, lastDir |-> policyPath,
               policy |-> updatePolicyTarget(pol, target), exc |-> "none",
               fellBack |-> TRUE]
         ELSE [loaded |-> TRUE, lastDir |-> policyPath,
               policy |-> imp.policy, exc |-> imp.exc, fellBack |-> FALSE]
    ELSE [loaded |-> loaded, lastDir |-> lastDir, policy |-> pol,
          exc |-> "none", fellBack |-> FALSE]

\* the loop condition with "and" for "or"
loopCondBoth(level, stats, target) ==
    level # MAX_LEVEL /\ primaryStatLevel(stats) < target

\* the loop condition that looks at the node level alone
loopCondLevelOnly(level, stats, target) ==
    level # MAX_LEVEL

\* the loop condition of performTrial
loopCond(level, stats, target) ==
    level # MAX_LEVEL \/ primaryStatLevel(stats) < target

\* the budget test without the cost of the next level-up
budgetBreakSpentOnly(erdaFragLim, cost, stats) ==
    erdaFragLim # 0 /\ cost > erdaFragLim

\* the budget test at the head of the loop body (ignoreLims is
\* erdaFragLim = 0)
budgetBreak(erdaFragLim, cost, stats) ==
    erdaFragLim # 0 /\ cost + curFragCost(stats) > erdaFragLim

NoArgs == [target |-> 0, policyPath |-> "", erdaFragLim |-> 0]

NoResult == [exc |-> "none", totalFragCost |-> 0, totalEnhances |-> 0,
             primaryLevel |-> 0, secondaryLevel |-> 0, thirdLevel |-> 0,
             numResets |-> 0]

Raised(e) == [NoResult EXCEPT !.exc = e]

\* no table was injected since the last call; after forceInjectPolicy the
\* record holds the table and call is "pending", and during the next
\* performTrial call it is "running".  fellBack tells whether the running
\* call went through updatePolicyTarget.
NoInject == [call |-> "none", table |-> EmptyDefaultDict, fellBack |-> FALSE]

\* HexaStatFramework.__init__
HexaFrameworkInit ==
    /\ loadedPolicy = FALSE
    /\ lastPolicyDir = ""
    /\ policy = EmptyDefaultDict
    /\ hpc = "idle"
    /\ hargs = NoArgs
    /\ totCost = 0
    /\ totResets = 0
    /\ numEnhances = 0
    /\ hexaRet = NoResult
    /\ injected = FALSE
    /\ lastInject = NoInject

\* forceInjectPolicy
forceInjectPolicy ==
    /\ hpc = "idle"
    /\ \E newPolicy \in InjectedPolicies :
        /\ policy' = newPolicy
        /\ lastInject' = [call |-> "pending", table |-> newPolicy,
                          fellBack |-> FALSE]
    /\ loadedPolicy' = TRUE
    /\ injected' = TRUE
    /\ UNCHANGED <<lastPolicyDir, hpc, hargs, totCost, totResets,
                   numEnhances, hexaRet, coreVars>>
    /\ UNCHANGED <<stVars, simVars>>

\* performTrial is called: lines 220-244
performTrialCall ==
    /\ hpc = "idle"
    /\ \E target \in Targets, policyPath \in PolicyPaths,
          erdaFragLim \in FragLimits :
        LET e == performTrialEntry(loadedPolicy, lastPolicyDir, policy,
                                   target, policyPath, erdaFragLim) IN
        /\ loadedPolicy' = e.loaded
        /\ lastPolicyDir' = e.lastDir
        /\ policy' = e.policy
        /\ hargs' = [target |-> target, policyPath |-> policyPath,
                     erdaFragLim |-> erdaFragLim]
        /\ IF e.exc = "none"
           THEN hpc' = "loop" /\ hexaRet' = NoResult
           ELSE hpc' = "raised" /\ hexaRet' = Raised(e.exc)
        /\ lastInject' = IF lastInject.call = "pending"
                          THEN [lastInject EXCEPT !.call = "running",
                                                  !.fellBack = e.fellBack]
                          ELSE [NoInject EXCEPT !.fellBack = e.fellBack]
    /\ nodeLevel' = INIT_LEVEL
    /\ statLevels' = <<INIT_LEVEL, INIT_LEVEL, INIT_LEVEL>>
    /\ totCost' = 0
    /\ totResets' = 0
    /\ numEnhances' = 0
    /\ UNCHANGED <<coreRet, injected>>
    /\ UNCHANGED <<stVars, simVars>>

\* the loop ends (its condition fails, or the budget test breaks) and
\* performTrial returns the result dict
performTrialReturn ==
    /\ hpc = "loop"
    /\ \/ ~loopCond(nodeLevel, statLevels, hargs.target)
       \/ budgetBreak(hargs.erdaFragLim, totCost, statLevels)
    /\ hpc' = "returned"
    /\ hexaRet' = [exc |-> "none", totalFragCost |-> totCost,
                   totalEnhances |-> numEnhances,
                   primaryLevel |-> primaryStatLevel(statLevels),
                   secondaryLevel |-> secondStatLevel(statLevels),
                   thirdLevel |-> thirdStatLevel(statLevels),
                   numResets |-> totResets]
    /\ UNCHANGED <<loadedPolicy, lastPolicyDir, policy, hargs, totCost,
                   totResets, numEnhances, injected, lastInject, coreVars>>
    /\ UNCHANGED <<stVars, simVars>>

\* the loop body may run
InLoopBody ==
    /\ hpc = "loop"
    /\ loopCond(nodeLevel, statLevels, hargs.target)
    /\ ~budgetBreak(hargs.erdaFragLim, totCost, statLevels)

\* one pass of the loop body where the policy lookup raises KeyError
performTrialKeyError ==
    /\ InLoopBody
    /\ policyLookup(policy, <<nodeLevel, primaryStatLevel(statLevels)>>)
           = "KeyError"
    /\ hpc' = "raised"
    /\ hexaRet' = Raised("KeyError")
    /\ UNCHANGED <<loadedPolicy, lastPolicyDir, policy, hargs, totCost,
                   totResets, numEnhances, injected, lastInject, coreVars>>
    /\ UNCHANGED <<stVars, simVars>>

\* one pass of the loop body where the policy says reset
performTrialReset ==
    /\ InLoopBody
    /\ policyLookup(policy, <<nodeLevel, primaryStatLevel(statLevels)>>)
           = "reset"
    /\ totResets < MaxResets
    /\ LET r == resetNode(nodeLevel, statLevels) IN
       /\ nodeLevel' = r.level
       /\ statLevels' = r.stats
       /\ totResets' = totResets + 1
       /\ IF r.exc = "none"
          THEN UNCHANGED <<hpc, hexaRet>>
          ELSE hpc' = "raised" /\ hexaRet' = Raised(r.exc)
    /\ UNCHANGED <<loadedPolicy, lastPolicyDir, policy, hargs, totCost,
                   numEnhances, injected, lastInject, coreRet>>
    /\ UNCHANGED <<stVars, simVars>>

\* one pass of the loop body where the policy says enhance
performTrialEnhance ==
    /\ InLoopBody
    /\ policyLookup(policy, <<nodeLevel, primaryStatLevel(statLevels)>>)
           = "enhance"
    /\ \E u \in TrialDraws :
        LET r == levelNode(nodeLevel, statLevels, u) IN
        /\ nodeLevel' = r.level
        /\ statLevels' = r.stats
        /\ IF r.exc = "none"
           THEN /\ totCost' = totCost + r.cost[2]
                /\ numEnhances' = numEnhances + 1
                /\ UNCHANGED <<hpc, hexaRet>>
           ELSE /\ hpc' = "raised"
                /\ hexaRet' = Raised(r.exc)
                /\ UNCHANGED <<totCost, numEnhances>>
    /\ UNCHANGED <<loadedPolicy, lastPolicyDir, policy, hargs, totResets,
                   injected, lastInject, coreRet>>
    /\ UNCHANGED <<stVars, simVars>>

\* the caller has the result (or the exception) and the instance is free
\* for the next call; the locals of the finished call are gone
performTrialDone ==
    /\ hpc \in {"returned", "raised"}
    /\ hpc' = "idle"
    /\ hargs' = NoArgs
    /\ nodeLevel' = INIT_LEVEL
    /\ statLevels' = <<INIT_LEVEL, INIT_LEVEL, INIT_LEVEL>>
    /\ totCost' = 0
    /\ totResets' = 0
    /\ numEnhances' = 0
    /\ hexaRet' = NoResult
    /\ lastInject' = NoInject
    /\ UNCHANGED <<loadedPolicy, lastPolicyDir, policy, injected, coreRet>>
    /\ UNCHANGED <<stVars, simVars>>

HexaNext ==
    \/ forceInjectPolicy
    \/ performTrialCall
    \/ performTrialReturn
    \/ performTrialKeyError
    \/ performTrialReset
    \/ performTrialEnhance
    \/ performTrialDone

----------------------------------------------------------------------------
(* SpellTraceFramework: inputs                                             *)

\* bounds: the slots of the item, the failure tolerance handed in and the
\* number of random draws one trial may take
MaxSlots == 2
MaxTol == 2
MaxDraws == 9

\* rates and draws in hundredths, like the leveling engine's
FullRate == ONE
HalfRate == ONE \div 2
STDraws == {0, HalfRate, ONE - 1}
Rates == {0, HalfRate, FullRate}

\* the argument maps handed to performTrial; the costs are those of
\* test_spelltrace.py
STArgs ==
    [eqpSlots : 0..MaxSlots,
     cssCost : {112}, cssRate : Rates,
     innoCost : {111}, innoRate : Rates,
     innoAfterTol : 0..MaxTol,
     useHammer : BOOLEAN,
     hammerCost : {1}, hammerRate : Rates,
     scrollCost : {200}, scrollRate : Rates,
     guildSaveRate : Rates]

NoSTArgs ==
    [eqpSlots |-> 0, cssCost |-> 0, cssRate |-> 0, innoCost |-> 0,
     innoRate |-> 0, innoAfterTol |-> 0, useHammer |-> FALSE,
     hammerCost |-> 0, hammerRate |-> 0, scrollCost |-> 0,
     scrollRate |-> 0, guildSaveRate |-> 0]

----------------------------------------------------------------------------
(* SpellTraceFramework.performTrial: the steps on its local variables      *)

\* lines 108-118: the locals at the head of the loop.  curCost and curFails
\* are the locals of simulateForcePassedScroll, lastOp the last operation
\* done (history).
trialLocals(a) ==
    [innoCosts |-> 0, scrollCosts |-> 0, cssCosts |-> 0, hammerCosts |-> 0,
     fScrolls |-> 0, fInnos |-> 0, fCSS |-> 0, fHammers |-> 0,
     pScrolls |-> 0, pInnos |-> 0, pCSS |-> 0, pHammers |-> 0,
     numGS |-> 0,
     eqpHammers |-> 0, curPassed |-> 0, curFailed |-> 0,
     totSlots |-> IF a.useHammer THEN a.eqpSlots + 2 ELSE a.eqpSlots,
     availSlots |-> a.eqpSlots,
     innoAfterTol |-> a.innoAfterTol,
     curCost |-> 0, curFails |-> 0, lastOp |-> "none"]

NoLocals == trialLocals(NoSTArgs)

\* the comparisons of a draw with a rate
scrollPassed(u, scrollRate) == u <= scrollRate
guildSaved(u, guildSaveRate) == u < guildSaveRate
hammProcSucc(u, hammerRate) == u < hammerRate
forcedScrollFails(u, scrollRate) == u > scrollRate

\* the number of draws the trial has taken from the rng
drawsUsed(l) ==
    l.pScrolls + 2 * l.fScrolls + l.pHammers + l.fHammers
        + l.pInnos + l.fInnos + l.pCSS + l.fCSS + l.curFails

\* resetState that keeps the hammers used
resetStateKeepHammers(l, a) ==
    [l EXCEPT !.curPassed = 0, !.curFailed = 0, !.availSlots = a.eqpSlots]

\* resetState (lines 121-125)
resetState(l, a) ==
    [l EXCEPT !.eqpHammers = 0, !.curPassed = 0, !.curFailed = 0,
              !.availSlots = a.eqpSlots]

\* a passed scroll that is not charged
scrollPassFree(l, a) ==
    [l EXCEPT !.availSlots = @ - 1,
              !.pScrolls = @ + 1,
              !.curPassed = @ + 1,
              !.lastOp = "scroll"]

\* lines 131-136: the scroll passed
scrollPass(l, a) ==
    [l EXCEPT !.scrollCosts = @ + a.scrollCost,
              !.availSlots = @ - 1,
              !.pScrolls = @ + 1,
              !.curPassed = @ + 1,
              !.lastOp = "scroll"]

\* a failed scroll that loses its slot without counting the failure
scrollFailUncounted(l, a, saved) ==
    [l EXCEPT !.scrollCosts = @ + a.scrollCost,
              !.numGS = @ + (IF saved THEN 1 ELSE 0),
              !.availSlots = @ - (IF saved THEN 0 ELSE 1),
              !.fScrolls = @ + 1,
              !.lastOp = "scroll"]

\* a failed scroll that loses its slot although it was saved
scrollFailSlotLost(l, a, saved) ==
    [l EXCEPT !.scrollCosts = @ + a.scrollCost,
              !.numGS = @ + (IF saved THEN 1 ELSE 0),
              !.availSlots = @ - 1,
              !.fScrolls = @ + 1,
              !.curFailed = @ + 1,
              !.lastOp = "scroll"]

\* lines 131-142: the scroll failed, and guild slot saving did or did not
\* keep the slot
scrollFail(l, a, saved) ==
    [l EXCEPT !.scrollCosts = @ + a.scrollCost,
              !.numGS = @ + (IF saved THEN 1 ELSE 0),
              !.availSlots = @ - (IF saved THEN 0 ELSE 1),
              !.fScrolls = @ + 1,
              !.curFailed = @ + (IF saved THEN 0 ELSE 1),
              !.lastOp = "scroll"]

\* the innocence test with >= for >
mustInnoAtTol(l) == l.curFailed >= l.innoAfterTol

\* line 145: the failures passed the tolerance
mustInno(l) == l.curFailed > l.innoAfterTol

\* the hammer test that does not look at the innocence test before it
mustHammerFirst(l, a) ==
    a.useHammer /\ l.availSlots = 0 /\ l.eqpHammers < 2

\* the hammer test with <= for <
mustHammerThree(l, a) ==
    ~mustInno(l) /\ a.useHammer /\ l.availSlots = 0 /\ l.eqpHammers <= 2

\* line 154: a hammer is to be used
mustHammer(l, a) ==
    ~mustInno(l) /\ a.useHammer /\ l.availSlots = 0 /\ l.eqpHammers < 2

\* line 171: a clean slate scroll is to be used
mustCSS(l, a) ==
    ~mustInno(l) /\ ~mustHammer(l, a) /\ l.availSlots = 0 /\ l.curFailed > 0

\* lines 146-153: the forced innocence scroll passed after l.curFails
\* failures
innoDone(l, a) ==
    LET inProcCost == l.curCost + a.innoCost
        acc == [l EXCEPT !.innoCosts = @ + inProcCost,
                         !.fInnos = @ + l.curFails,
                         !.pInnos = @ + 1,
                         !.curCost = 0, !.curFails = 0,
                         !.lastOp = "inno"]
    IN resetState(acc, a)

\* a hammer that raises the tolerance only when it failed
hammerUseRaiseOnFail(l, a, succ, greedy) ==
    [l EXCEPT !.eqpHammers = @ + 1,
              !.hammerCosts = @ + a.hammerCost,
              !.fHammers = @ + (IF succ THEN 0 ELSE 1),
              !.pHammers = @ + (IF succ THEN 1 ELSE 0),
              !.curFailed = @ + (IF succ THEN 0 ELSE 1),
              !.availSlots = @ + (IF succ THEN 1 ELSE 0),
              !.innoAfterTol = @ + (IF greedy /\ ~succ THEN 1 ELSE 0),
              !.lastOp = "hammer"]

\* a hammer whose failure is not counted
hammerUseFailUncounted(l, a, succ, greedy) ==
    [l EXCEPT !.eqpHammers = @ + 1,
              !.hammerCosts = @ + a.hammerCost,
              !.fHammers = @ + (IF succ THEN 0 ELSE 1),
              !.pHammers = @ + (IF succ THEN 1 ELSE 0),
              !.availSlots = @ + (IF succ THEN 1 ELSE 0),
              !.innoAfterTol = @ + (IF greedy THEN 1 ELSE 0),
              !.lastOp = "hammer"]

\* a hammer that is not charged
hammerUseFree(l, a, succ, greedy) ==
    [l EXCEPT !.eqpHammers = @ + 1,
              !.fHammers = @ + (IF succ THEN 0 ELSE 1),
              !.pHammers = @ + (IF succ THEN 1 ELSE 0),
              !.curFailed = @ + (IF succ THEN 0 ELSE 1),
              !.availSlots = @ + (IF succ THEN 1 ELSE 0),
              !.innoAfterTol = @ + (IF greedy THEN 1 ELSE 0),
              !.lastOp = "hammer"]

\* lines 155-170: one hammer, passed or not
hammerUse(l, a, succ, greedy) ==
    [l EXCEPT !.eqpHammers = @ + 1,
              !.hammerCosts = @ + a.hammerCost,
              !.fHammers = @ + (IF succ THEN 0 ELSE 1),
              !.pHammers = @ + (IF succ THEN 1 ELSE 0),
              !.curFailed = @ + (IF succ THEN 0 ELSE 1),
              !.availSlots = @ + (IF succ THEN 1 ELSE 0),
              !.innoAfterTol = @ + (IF greedy THEN 1 ELSE 0),
              !.lastOp = "hammer"]

\* a clean slate scroll that takes a failure off and gives no slot back
cssDoneNoSlot(l, a) ==
    LET cssProcCost == l.curCost + a.cssCost IN
    [l EXCEPT !.cssCosts = @ + cssProcCost,
              !.fCSS = @ + l.curFails,
              !.pCSS = @ + 1,
              !.curFailed = @ - 1,
              !.curCost = 0, !.curFails = 0,
              !.lastOp = "css"]

\* a clean slate scroll that gives back every failed slot at once
cssDoneAll(l, a) ==
    LET cssProcCost == l.curCost + a.cssCost IN
    [l EXCEPT !.cssCosts = @ + cssProcCost,
              !.fCSS = @ + l.curFails,
              !.pCSS = @ + 1,
              !.availSlots = @ + l.curFailed,
              !.curFailed = 0,
              !.curCost = 0, !.curFails = 0,
              !.lastOp = "css"]

\* a clean slate scroll that gives a slot back and leaves the failure
\* counted
cssDoneKeepFailure(l, a) ==
    LET cssProcCost == l.curCost + a.cssCost IN
    [l EXCEPT !.cssCosts = @ + cssProcCost,
              !.fCSS = @ + l.curFails,
              !.pCSS = @ + 1,
              !.availSlots = @ + 1,
              !.curCost = 0, !.curFails = 0,
              !.lastOp = "css"]

\* lines 172-180: the forced clean slate scroll passed after l.curFails
\* failures
cssDone(l, a) ==
    LET cssProcCost == l.curCost + a.cssCost IN
    [l EXCEPT !.cssCosts = @ + cssProcCost,
              !.fCSS = @ + l.curFails,
              !.pCSS = @ + 1,
              !.availSlots = @ + 1,
              !.curFailed = @ - 1,
              !.curCost = 0, !.curFails = 0,
              !.lastOp = "css"]

\* a failed draw of simulateForcePassedScroll that is not charged
forcedScrollRetryFree(l, scrollCost) ==
    [l EXCEPT !.curFails = @ + 1]

\* lines 211-213: one failed draw of simulateForcePassedScroll
forcedScrollRetry(l, scrollCost) ==
    [l EXCEPT !.curCost = @ + scrollCost, !.curFails = @ + 1]

\* the returned dict with a total that leaves the hammers out
trialResultNoHammerCost(l) ==
    [totalTraceCost |-> l.innoCosts + l.cssCosts + l.scrollCosts,
     innoTraceCost |-> l.innoCosts,
     scrollTraceCost |-> l.scrollCosts,
     cssTraceCost |-> l.cssCosts,
     hammerTraceCost |-> l.hammerCosts,
     numFailedScrolls |-> l.fScrolls,
     numFailedInnos |-> l.fInnos,
     numFailedCSS |-> l.fCSS,
     numFailedHammers |-> l.fHammers,
     numPassedScrolls |-> l.pScrolls,
     numPassedInnos |-> l.pInnos,
     numPassedCSS |-> l.pCSS,
     numPassedHammers |-> l.pHammers,
     numGuildSaves |-> l.numGS]

\* lines 183-196: the returned dict
trialResult(l) ==
    [totalTraceCost |-> l.innoCosts + l.cssCosts + l.scrollCosts
                            + l.hammerCosts,
     innoTraceCost |-> l.innoCosts,
     scrollTraceCost |-> l.scrollCosts,
     cssTraceCost |-> l.cssCosts,
     hammerTraceCost |-> l.hammerCosts,
     numFailedScrolls |-> l.fScrolls,
     numFailedInnos |-> l.fInnos,
     numFailedCSS |-> l.fCSS,
     numFailedHammers |-> l.fHammers,
     numPassedScrolls |-> l.pScrolls,
     numPassedInnos |-> l.pInnos,
     numPassedCSS |-> l.pCSS,
     numPassedHammers |-> l.pHammers,
     numGuildSaves |-> l.numGS]

NoSTResult == trialResult(NoLocals)

----------------------------------------------------------------------------
(* SpellTraceFramework.performTrial: the state machine                     *)

\* no trial in progress
STIdle ==
    /\ spc = "idle"
    /\ sargs = NoSTArgs
    /\ sl = NoLocals
    /\ sRet = NoSTResult

\* performTrial is called (lines 108-125)
stCall ==
    /\ spc = "idle"
    /\ \E a \in STArgs : sargs' = a /\ sl' = trialLocals(a)
    /\ spc' = "loop"
    /\ UNCHANGED <<sRet, greedyAfterInno, coreVars, hexaVars, simVars>>

\* line 128 fails: the trial returns its dict
stReturn ==
    /\ spc = "loop"
    /\ ~(sl.curPassed < sl.totSlots)
    /\ spc' = "done"
    /\ sRet' = trialResult(sl)
    /\ UNCHANGED <<sargs, sl, greedyAfterInno, coreVars, hexaVars, simVars>>

\* lines 130-136: a slot is available and the scroll passes
stScrollPass ==
    /\ spc = "loop"
    /\ sl.curPassed < sl.totSlots
    /\ sl.availSlots > 0
    /\ drawsUsed(sl) < MaxDraws
    /\ \E u \in STDraws :
        /\ scrollPassed(u, sargs.scrollRate)
        /\ sl' = scrollPass(sl, sargs)
    /\ spc' = "esc"
    /\ UNCHANGED <<sargs, sRet, greedyAfterInno, coreVars, hexaVars, simVars>>

\* lines 130-142: a slot is available and the scroll fails; a second draw
\* decides the guild slot saving
stScrollFail ==
    /\ spc = "loop"
    /\ sl.curPassed < sl.totSlots
    /\ sl.availSlots > 0
    /\ drawsUsed(sl) < MaxDraws
    /\ \E u, v \in STDraws :
        /\ ~scrollPassed(u, sargs.scrollRate)
        /\ sl' = scrollFail(sl, sargs, guildSaved(v, sargs.guildSaveRate))
    /\ spc' = "esc"
    /\ UNCHANGED <<sargs, sRet, greedyAfterInno, coreVars, hexaVars, simVars>>

\* line 130 fails: no slot is available, the pass goes on to line 145
stNoSlot ==
    /\ spc = "loop"
    /\ sl.curPassed < sl.totSlots
    /\ ~(sl.availSlots > 0)
    /\ spc' = "esc"
    /\ UNCHANGED <<sargs, sl, sRet, greedyAfterInno, coreVars, hexaVars, simVars>>

\* line 145 holds: simulateForcePassedScroll(innoRate, innoCost) starts
stInnoStart ==
    /\ spc = "esc"
    /\ mustInno(sl)
    /\ spc' = "inno"
    /\ UNCHANGED <<sargs, sl, sRet, greedyAfterInno, coreVars, hexaVars, simVars>>

\* lines 211-213 for the innocence scroll: a draw above the rate
stInnoRetry ==
    /\ spc = "inno"
    /\ drawsUsed(sl) < MaxDraws
    /\ \E u \in STDraws : forcedScrollFails(u, sargs.innoRate)
    /\ sl' = forcedScrollRetry(sl, sargs.innoCost)
    /\ UNCHANGED <<spc, sargs, sRet, greedyAfterInno, coreVars, hexaVars, simVars>>

\* the innocence scroll passes: lines 215, 147-153
stInnoPass ==
    /\ spc = "inno"
    /\ drawsUsed(sl) < MaxDraws
    /\ \E u \in STDraws : ~forcedScrollFails(u, sargs.innoRate)
    /\ sl' = innoDone(sl, sargs)
    /\ spc' = "loop"
    /\ UNCHANGED <<sargs, sRet, greedyAfterInno, coreVars, hexaVars, simVars>>

\* lines 154-170: a hammer is used
stHammer ==
    /\ spc = "esc"
    /\ mustHammer(sl, sargs)
    /\ drawsUsed(sl) < MaxDraws
    /\ \E u \in STDraws :
        sl' = hammerUse(sl, sargs, hammProcSucc(u, sargs.hammerRate),
                        greedyAfterInno)
    /\ spc' = "loop"
    /\ UNCHANGED <<sargs, sRet, greedyAfterInno, coreVars, hexaVars, simVars>>

\* line 171 holds: simulateForcePassedScroll(cssRate, cssCost) starts
stCSSStart ==
    /\ spc = "esc"
    /\ mustCSS(sl, sargs)
    /\ spc' = "css"
    /\ UNCHANGED <<sargs, sl, sRet, greedyAfterInno, coreVars, hexaVars, simVars>>

\* lines 211-213 for the clean slate scroll: a draw above the rate
stCSSRetry ==
    /\ spc = "css"
    /\ drawsUsed(sl) < MaxDraws
    /\ \E u \in STDraws : forcedScrollFails(u, sargs.cssRate)
    /\ sl' = forcedScrollRetry(sl, sargs.cssCost)
    /\ UNCHANGED <<spc, sargs, sRet, greedyAfterInno, coreVars, hexaVars, simVars>>

\* the clean slate scroll passes: lines 215, 173-180
stCSSPass ==
    /\ spc = "css"
    /\ drawsUsed(sl) < MaxDraws
    /\ \E u \in STDraws : ~forcedScrollFails(u, sargs.cssRate)
    /\ sl' = cssDone(sl, sargs)
    /\ spc' = "loop"
    /\ UNCHANGED <<sargs, sRet, greedyAfterInno, coreVars, hexaVars, simVars>>

\* none of lines 145, 154 and 171 holds: the next pass of the loop
stNoEscalation ==
    /\ spc = "esc"
    /\ ~mustInno(sl) /\ ~mustHammer(sl, sargs) /\ ~mustCSS(sl, sargs)
    /\ spc' = "loop"
    /\ UNCHANGED <<sargs, sl, sRet, greedyAfterInno, coreVars, hexaVars, simVars>>

\* the caller has the dict; the locals of the call are gone
stDone ==
    /\ spc = "done"
    /\ spc' = "idle"
    /\ sargs' = NoSTArgs
    /\ sl' = NoLocals
    /\ sRet' = NoSTResult
    /\ UNCHANGED <<greedyAfterInno, coreVars, hexaVars, simVars>>

STNext ==
    \/ stCall
    \/ stReturn
    \/ stScrollPass
    \/ stScrollFail
    \/ stNoSlot
    \/ stInnoStart
    \/ stInnoRetry
    \/ stInnoPass
    \/ stHammer
    \/ stCSSStart
    \/ stCSSRetry
    \/ stCSSPass
    \/ stNoEscalation
    \/ stDone

----------------------------------------------------------------------------
(* Framework: the argument contract of every engine                        *)

\* a Python value: its type and a number standing for it (a string's
\* number is its index, a bool's is 0 or 1)
IntV(n) == [t |-> "int", v |-> n]
FloatV(n) == [t |-> "float", v |-> n]
StrV(n) == [t |-> "str", v |-> n]
BoolV(n) == [t |-> "bool", v |-> n]

\* isinstance(val, types): bool is a subclass of int
isinstanceExact(val, types) == val.t \in types

isinstance(val, types) ==
    val.t \in types \/ (val.t = "bool" /\ "int" \in types)

\* a dict without entries
EmptyDict == [k \in {} |-> IntV(0)]

\* the engines a harness can hold: the template, the engine of
\* test_markovsim.py and the two engines with a random stream
Frameworks ==
    {"Framework", "DummyFramework", "HexaStatFramework",
     "SpellTraceFramework"}

SeededFrameworks == {"HexaStatFramework", "SpellTraceFramework"}

\* ARG_TYPES of each engine, in the order of declaration
ARG_TYPES(fw) ==
    CASE fw = "Framework" ->
           <<[name |-> "EXAMPLE1", types |-> {"int"}],
             [name |-> "EXAMPLE2", types |-> {"float"}],
             [name |-> "EXAMPLE3", types |-> {"float", "int"}]>>
      [] fw = "DummyFramework" ->
           <<[name |-> "arg1", types |-> {"int"}],
             [name |-> "arg2", types |-> {"int"}]>>
      [] fw = "HexaStatFramework" ->
           <<[name |-> "Target Primary Level", types |-> {"int"}],
             [name |-> "Custom Policy Name", types |-> {"str"}],
             [name |-> "Erda Frag Limit", types |-> {"int"}]>>
      [] fw = "SpellTraceFramework" ->
           <<[name |-> "Num Slots", types |-> {"int"}],
             [name |-> "CSS Cost", types |-> {"int"}],
             [name |-> "CSS %", types |-> {"float"}],
             [name |-> "Inno Cost", types |-> {"float"}],
             [name |-> "Inno %", types |-> {"float"}],
             [name |-> "Inno Fail Count", types |-> {"int"}],
             [name |-> "Use Hammer", types |-> {"bool"}],
             [name |-> "Hammer Cost", types |-> {"int"}],
             [name |-> "Hammer %", types |-> {"float"}],
             [name |-> "Scroll Cost", types |-> {"int"}],
             [name |-> "Scroll %", types |-> {"float"}],
             [name |-> "Guild Save %", types |-> {"float"}]>>

\* ARG_MAPPING of each engine, as pairs of user name and parameter name
\* (empty for the template and for the engine of the tests)
ARG_MAPPING(fw) ==
    CASE fw = "HexaStatFramework" ->
           {<<"Target Primary Level", "target">>,
            <<"Custom Policy Name", "policyPath">>,
            <<"Erda Frag Limit", "erdaFragLim">>}
      [] fw = "SpellTraceFramework" ->
           {<<"Num Slots", "eqpSlots">>, <<"CSS Cost", "cssCost">>,
            <<"CSS %", "cssRate">>, <<"Inno Cost", "innoCost">>,
            <<"Inno %", "innoRate">>, <<"Inno Fail Count", "innoAfterTol">>,
            <<"Use Hammer", "useHammer">>, <<"Hammer Cost", "hammerCost">>,
            <<"Hammer %", "hammerRate">>, <<"Scroll Cost", "scrollCost">>,
            <<"Scroll %", "scrollRate">>, <<"Guild Save %", "guildSaveRate">>}
      [] OTHER -> {}

\* the declared names of an engine
declaredNames(fw) == {ARG_TYPES(fw)[i].name : i \in DOMAIN ARG_TYPES(fw)}

checkInvalidArgsPartial(fw, argDict) ==
    LET argTypes == ARG_TYPES(fw)
        bad(e) == /\ e.name \in DOMAIN argDict
                  /\ ~isinstance(argDict[e.name], e.types)
    IN IF Cardinality(DOMAIN argDict) # Len(argTypes)
       THEN [exc |-> "ValueError", msg |-> "Extra argument detected.",
             invalidArgs |-> <<>>]
       ELSE LET badTypes == SelectSeq(argTypes, bad) IN
            [exc |-> "none", msg |-> "",
             invalidArgs |-> [i \in DOMAIN badTypes |-> badTypes[i].name]]

\* checkInvalidArgs (lines 124-146): a ValueError for a dict of another
\* size or without a declared name, else the list of the declared names
\* whose value is of no accepted type
checkInvalidArgs(fw, argDict) ==
    LET argTypes == ARG_TYPES(fw)
        bad(e) == ~isinstance(argDict[e.name], e.types)
    IN IF Cardinality(DOMAIN argDict) # Len(argTypes)
       THEN [exc |-> "ValueError", msg |-> "Extra argument detected.",
             invalidArgs |-> <<>>]
       ELSE IF \E i \in DOMAIN argTypes : argTypes[i].name \notin DOMAIN argDict
       THEN [exc |-> "ValueError",
             msg |-> "Input argument dict did not contain expected argument",
             invalidArgs |-> <<>>]
       ELSE LET badTypes == SelectSeq(argTypes, bad) IN
            [exc |-> "none", msg |-> "",
             invalidArgs |-> [i \in DOMAIN badTypes |-> badTypes[i].name]]

mapArgsKeepNames(fw, userInputDict) ==
    LET mapping == ARG_MAPPING(fw)
    IN IF mapping = {}
       THEN [exc |-> "none", dict |-> userInputDict]
       ELSE IF \E k \in DOMAIN userInputDict :
                   \A pr \in mapping : pr[1] # k
       THEN [exc |-> "KeyError", dict |-> EmptyDict]
       ELSE [exc |-> "none", dict |-> userInputDict]

\* mapArgs (lines 93-105): the dict itself without an ARG_MAPPING, else
\* the dict with each user name replaced by its parameter name; a KeyError
\* for a user name the mapping does not hold
mapArgs(fw, userInputDict) ==
    LET mapping == ARG_MAPPING(fw)
        alias(k) == CHOOSE pr \in mapping : pr[1] = k
    IN IF mapping = {}
       THEN [exc |-> "none", dict |-> userInputDict]
       ELSE IF \E k \in DOMAIN userInputDict :
                   \A pr \in mapping : pr[1] # k
       THEN [exc |-> "KeyError", dict |-> EmptyDict]
       ELSE [exc |-> "none",
             dict |-> [p \in {alias(k)[2] : k \in DOMAIN userInputDict} |->
                         userInputDict[(CHOOSE pr \in mapping : pr[2] = p)[1]]]]

----------------------------------------------------------------------------
(* MarkovSim: the simulation harness                                       *)

\* bounds: the trials one simulate call may ask for, the trials all calls
\* together may run, the values one rng may produce and the resets or
\* restarts of one trial
MaxTrials == 2
MaxExecutions == 3
MaxStream == 3
MaxTrialResets == 1

TrialCounts == (-1)..MaxTrials

\* argument dicts handed to simulate: those of test_markovsim.py and of
\* test_framework.py, with wrong types, missing and extra names, and one
\* valid dict for each seeded engine
DummyArgs(a, b) ==
    [k \in {"arg1", "arg2"} |-> IF k = "arg1" THEN a ELSE b]

ExampleArgs(a, b, c) ==
    [k \in {"EXAMPLE1", "EXAMPLE2", "EXAMPLE3"} |->
        IF k = "EXAMPLE1" THEN a ELSE IF k = "EXAMPLE2" THEN b ELSE c]

HexaUserArgs(target) ==
    [k \in {"Target Primary Level", "Custom Policy Name", "Erda Frag Limit"}
        |-> IF k = "Target Primary Level" THEN IntV(target)
            ELSE IF k = "Custom Policy Name" THEN StrV(0)
            ELSE IntV(35)]

SpellTraceUserArgs ==
    [k \in declaredNames("SpellTraceFramework") |->
        IF k \in {"Num Slots", "CSS Cost", "Inno Fail Count", "Hammer Cost",
                  "Scroll Cost"} THEN IntV(1)
        ELSE IF k = "Use Hammer" THEN BoolV(1)
        ELSE FloatV(1)]

SimArgMaps ==
    {EmptyDict,
     DummyArgs(IntV(1), IntV(1)), DummyArgs(IntV(1), IntV(2)),
     DummyArgs(IntV(1), StrV(0)), DummyArgs(BoolV(1), IntV(1)),
     [k \in {"arg1"} |-> IntV(1)],
     [k \in {"arg1", "arg3"} |-> IntV(1)],
     [k \in {"arg1", "arg3"} |-> IF k = "arg1" THEN StrV(0) ELSE IntV(1)],
     [k \in {"arg1", "arg2", "arg3"} |-> IntV(1)],
     ExampleArgs(IntV(1), FloatV(2), FloatV(1)),
     ExampleArgs(IntV(1), IntV(1), StrV(0)),
     HexaUserArgs(1), HexaUserArgs(MAX_STAT_LEVEL + 1),
     [k \in {"Target Primary Level", "Erda Frag Limit"} |-> IntV(1)],
     SpellTraceUserArgs}

\* grid dicts handed to gridSearch: none, one name, and the two names of
\* test_sim_framework_grid_search_all_variadic
EmptyGrid == [k \in {} |-> <<>>]

GridArgMaps ==
    {EmptyGrid,
     [k \in {"arg1"} |-> <<IntV(1), IntV(2)>>],
     [k \in {"arg1", "arg2"} |->
        IF k = "arg1" THEN <<IntV(1), IntV(2), IntV(3)>>
        ELSE <<IntV(1), IntV(5), IntV(6)>>]}

\* what a call gave back: nothing yet, a list, a dict, None or an
\* exception; val of an exception is what it carries besides its message,
\* and each raise of simulator.py and framework.py passes a message only
NoSimResult == [kind |-> "none", exc |-> "none", by |-> "none", val |-> <<>>]
SimList(l) == [NoSimResult EXCEPT !.kind = "list", !.val = l]
SimDict(d) == [NoSimResult EXCEPT !.kind = "dict", !.val = d]
SimNone == [NoSimResult EXCEPT !.kind = "None"]
SimRaised(e, by) ==
    [NoSimResult EXCEPT !.kind = "raised", !.exc = e, !.by = by]

NoSimCall ==
    [op |-> "none", numTrials |-> 0, simArgs |-> EmptyDict,
     gridArgs |-> EmptyGrid, fw |-> "Framework", invokedBefore |-> 0]

NoTrial == [reads |-> <<>>, resets |-> 0]

\* the trials invoked on all engines so far
totalInvoked == 
    simHist.invoked["Framework"] + simHist.invoked["DummyFramework"]
        + simHist.invoked["HexaStatFramework"]
        + simHist.invoked["SpellTraceFramework"]

\* DummyFramework.performTrial (test_markovsim.py lines 22-26): the dict
\* it returns
dummyResult(kwargs) ==
    [numExecutions |-> 1, result |-> kwargs["arg1"].v + kwargs["arg2"].v,
     iArg1 |-> kwargs["arg1"], iArg2 |-> kwargs["arg2"]]

\* a trial that draws from an rng of its own, built when it starts
trialRngFresh(pos) == 0

\* the rng a trial draws from is self.random of the engine, handed on as
\* it is (hexastats.py line 243; spelltrace.py draws from self.random):
\* its position when the trial starts is the one it had
trialRng(pos) == pos

\* a loop of simulate that runs one trial too many
moreTrialsInclusive(res, numTrials) == Len(res) <= numTrials

\* line 33: range(numTrials) has a value left
moreTrials(res, numTrials) == Len(res) < numTrials

\* MarkovSim.__init__, with one engine object of each kind built by the
\* caller: the template is selected, no engine has run and no rng has
\* produced a value
MarkovSimInit ==
    /\ curFramework = "Framework"
    /\ numExecutions = 0
    /\ rngPos = [fw \in SeededFrameworks |-> 0]
    /\ mpc = "idle"
    /\ mcall = NoSimCall
    /\ resList = <<>>
    /\ trial = NoTrial
    /\ mRet = NoSimResult
    /\ simHist = [invoked |-> [fw \in Frameworks |-> 0],
                  requested |-> [fw \in Frameworks |-> 0],
                  reads |-> [fw \in SeededFrameworks |-> <<>>]]

\* selectFramework (lines 18-22)
selectFramework ==
    /\ mpc = "idle"
    /\ \E fwork \in Frameworks : curFramework' = fwork
    /\ UNCHANGED <<numExecutions, rngPos, mpc, mcall, resList, trial, mRet,
                   simHist, coreVars, hexaVars, stVars>>

\* simulate is called (lines 29-32): a ValueError for a negative number of
\* trials, else an empty resList
simulateCall ==
    /\ mpc = "idle"
    /\ \E numTrials \in TrialCounts, simArgs \in SimArgMaps :
        /\ totalInvoked + numTrials <= MaxExecutions
        /\ mcall' = [op |-> "simulate", numTrials |-> numTrials,
                     simArgs |-> simArgs, gridArgs |-> EmptyGrid,
                     fw |-> curFramework,
                     invokedBefore |-> simHist.invoked[curFramework]]
        /\ IF numTrials < 0
           THEN /\ mRet' = SimRaised("ValueError", "simulate")
                /\ mpc' = "returned"
           ELSE /\ mRet' = NoSimResult
                /\ mpc' = "simulate"
    /\ resList' = <<>>
    /\ UNCHANGED <<curFramework, numExecutions, rngPos, trial, simHist,
                   coreVars, hexaVars, stVars>>

\* one pass of the loop of simulate (lines 33-34): checkAndPerformTrial
\* (framework.py lines 76-79) checks the dict, maps it and calls
\* performTrial.  The template raises NotImplementedError, the engine of
\* the tests returns at once, HexaStatFramework checks its arguments
\* (hexastats.py lines 221-224) and a seeded engine then runs its trial.
simulateTrial ==
    /\ mpc = "simulate"
    /\ moreTrials(resList, mcall.numTrials)
    /\ LET chk == checkInvalidArgs(curFramework, mcall.simArgs)
           kw == mapArgs(curFramework, mcall.simArgs)
           entered == [simHist EXCEPT !.invoked[curFramework] = @ + 1]
           raise(e, by, h) ==
               /\ mRet' = SimRaised(e, by)
               /\ mpc' = "returned"
               /\ simHist' = h
               /\ UNCHANGED <<numExecutions, rngPos, resList, trial>>
       IN IF chk.exc # "none"
          THEN raise(chk.exc, "checkInvalidArgs", simHist)
          ELSE IF chk.invalidArgs # <<>>
          THEN raise("ValueError", "checkAndPerformTrial", simHist)
          ELSE IF kw.exc # "none"
          THEN raise(kw.exc, "mapArgs", simHist)
          ELSE IF curFramework = "Framework"
          THEN raise("NotImplementedError", "performTrial", entered)
          ELSE IF curFramework = "DummyFramework"
          THEN /\ numExecutions' = numExecutions + 1
               /\ resList' = Append(resList, dummyResult(kw.dict))
               /\ simHist' = entered
               /\ UNCHANGED <<rngPos, mpc, mRet, trial>>
          ELSE IF /\ curFramework = "HexaStatFramework"
                  /\ \/ kw.dict["target"].v > MAX_STAT_LEVEL
                     \/ kw.dict["erdaFragLim"].v < 0
          THEN raise("ValueError", "performTrial", entered)
          ELSE /\ mpc' = "trial"
               /\ trial' = NoTrial
               /\ rngPos' = [rngPos EXCEPT ![curFramework] = trialRng(@)]
               /\ simHist' = entered
               /\ UNCHANGED <<numExecutions, resList, mRet>>
    /\ UNCHANGED <<curFramework, mcall, coreVars, hexaVars, stVars>>

\* the trial of a seeded engine takes a value from self.random, the bound
\* method of the rng built in __init__ (hexastats.py lines 124, 201-202,
\* 243; spelltrace.py lines 76-77, 131, 138, 158, 211)
trialDraw ==
    /\ mpc = "trial"
    /\ rngPos[curFramework] < MaxStream
    /\ rngPos' = [rngPos EXCEPT ![curFramework] = @ + 1]
    /\ trial' = [trial EXCEPT !.reads = Append(@, rngPos[curFramework] + 1)]
    /\ simHist' = [simHist EXCEPT !.reads[curFramework] =
                      Append(@, rngPos[curFramework] + 1)]
    /\ UNCHANGED <<curFramework, numExecutions, mpc, mcall, resList, mRet,
                   coreVars, hexaVars, stVars>>

\* the trial of a seeded engine starts over: resetNode (hexastats.py lines
\* 251-253) or resetState (spelltrace.py lines 121-125, 153)
trialRestart ==
    /\ mpc = "trial"
    /\ trial.resets < MaxTrialResets
    /\ trial' = [trial EXCEPT !.resets = @ + 1]
    /\ UNCHANGED <<curFramework, numExecutions, rngPos, mpc, mcall, resList,
                   mRet, simHist, coreVars, hexaVars, stVars>>

\* the trial of a seeded engine returns its dict, which simulate appends
trialReturn ==
    /\ mpc = "trial"
    /\ resList' = Append(resList, trial)
    /\ trial' = NoTrial
    /\ mpc' = "simulate"
    /\ UNCHANGED <<curFramework, numExecutions, rngPos, mcall, mRet, simHist,
                   coreVars, hexaVars, stVars>>

\* levelNode or resetNode raises RuntimeError, or the policy lookup
\* KeyError, inside HexaStatFramework.performTrial: simulate passes it on
trialRaise ==
    /\ mpc = "trial"
    /\ curFramework = "HexaStatFramework"
    /\ \E e \in {"RuntimeError", "KeyError"} :
          mRet' = SimRaised(e, "performTrial")
    /\ trial' = NoTrial
    /\ mpc' = "returned"
    /\ UNCHANGED <<curFramework, numExecutions, rngPos, mcall, resList,
                   simHist, coreVars, hexaVars, stVars>>

\* the loop of simulate is over (line 36)
simulateReturn ==
    /\ mpc = "simulate"
    /\ ~moreTrials(resList, mcall.numTrials)
    /\ mRet' = SimList(resList)
    /\ mpc' = "returned"
    /\ simHist' = [simHist EXCEPT !.requested[curFramework] =
                      @ + mcall.numTrials]
    /\ UNCHANGED <<curFramework, numExecutions, rngPos, mcall, resList, trial,
                   coreVars, hexaVars, stVars>>

\* gridSearch (lines 38-44): the body is pass, the call returns None
gridSearch ==
    /\ mpc = "idle"
    /\ \E numTrials \in TrialCounts, gridArgs \in GridArgMaps,
          simArgs \in SimArgMaps :
        mcall' = [op |-> "gridSearch", numTrials |-> numTrials,
                  simArgs |-> simArgs, gridArgs |-> gridArgs,
                  fw |-> curFramework,
                  invokedBefore |-> simHist.invoked[curFramework]]
    /\ mRet' = SimNone
    /\ mpc' = "returned"
    /\ UNCHANGED <<curFramework, numExecutions, rngPos, resList, trial,
                   simHist, coreVars, hexaVars, stVars>>

\* a caller (the tests, the command line) calls checkInvalidArgs of the
\* engine selected: the list of invalid names or a ValueError
checkInvalidArgsCall ==
    /\ mpc = "idle"
    /\ \E argDict \in SimArgMaps :
        LET chk == checkInvalidArgs(curFramework, argDict) IN
        /\ mcall' = [NoSimCall EXCEPT !.op = "checkInvalidArgs",
                                      !.simArgs = argDict,
                                      !.fw = curFramework]
        /\ mRet' = IF chk.exc # "none"
                   THEN SimRaised(chk.exc, "checkInvalidArgs")
                   ELSE SimList(chk.invalidArgs)
    /\ mpc' = "returned"
    /\ UNCHANGED <<curFramework, numExecutions, rngPos, resList, trial,
                   simHist, coreVars, hexaVars, stVars>>

\* a caller calls mapArgs of the engine selected: the mapped dict or a
\* KeyError
mapArgsCall ==
    /\ mpc = "idle"
    /\ \E userInputDict \in SimArgMaps :
        LET kw == mapArgs(curFramework, userInputDict) IN
        /\ mcall' = [NoSimCall EXCEPT !.op = "mapArgs",
                                      !.simArgs = userInputDict,
                                      !.fw = curFramework]
        /\ mRet' = IF kw.exc # "none"
                   THEN SimRaised(kw.exc, "mapArgs")
                   ELSE SimDict(kw.dict)
    /\ mpc' = "returned"
    /\ UNCHANGED <<curFramework, numExecutions, rngPos, resList, trial,
                   simHist, coreVars, hexaVars, stVars>>

\* the caller has the outcome of the call
simDone ==
    /\ mpc = "returned"
    /\ mpc' = "idle"
    /\ mcall' = NoSimCall
    /\ resList' = <<>>
    /\ mRet' = NoSimResult
    /\ UNCHANGED <<curFramework, numExecutions, rngPos, trial, simHist,
                   coreVars, hexaVars, stVars>>

SimNext ==
    \/ selectFramework
    \/ simulateCall
    \/ simulateTrial
    \/ trialDraw
    \/ trialRestart
    \/ trialReturn
    \/ trialRaise
    \/ simulateReturn
    \/ gridSearch
    \/ checkInvalidArgsCall
    \/ mapArgsCall
    \/ simDone

----------------------------------------------------------------------------
(* The stand-alone core                                                    *)

\* roll is the value levelNode took from the rng (line 124), -1 when the
\* call took none
NoCall == [op |-> "none", exc |-> "none", draws |-> 0, cost |-> <<0, 0>>,
           fromLevel |-> 0, fromStats |-> <<0, 0, 0>>, roll |-> -1]

\* HexaStatCore.__init__
CoreInit ==
    /\ nodeLevel = INIT_LEVEL
    /\ statLevels = <<INIT_LEVEL, INIT_LEVEL, INIT_LEVEL>>
    /\ coreRet = NoCall
    /\ HexaFrameworkInit
    /\ greedyAfterInno = TRUE
    /\ STIdle
    /\ MarkovSimInit

\* a caller invokes levelNode on the stand-alone core
CoreLevelNode ==
    \E u \in CoreDraws :
        LET r == levelNode(nodeLevel, statLevels, u) IN
        /\ nodeLevel' = r.level
        /\ statLevels' = r.stats
        /\ coreRet' = [op |-> "levelNode", exc |-> r.exc, draws |-> r.draws,
                       cost |-> r.cost, fromLevel |-> nodeLevel,
                       fromStats |-> statLevels,
                       roll |-> IF r.draws = 0 THEN -1 ELSE u]
        /\ UNCHANGED <<hexaVars, stVars, simVars>>

\* a caller invokes resetNode on the stand-alone core
CoreResetNode ==
    LET r == resetNode(nodeLevel, statLevels) IN
    /\ nodeLevel' = r.level
    /\ statLevels' = r.stats
    /\ coreRet' = [op |-> "resetNode", exc |-> r.exc, draws |-> 0,
                   cost |-> <<0, 0>>, fromLevel |-> nodeLevel,
                   fromStats |-> statLevels, roll |-> -1]
    /\ UNCHANGED <<hexaVars, stVars, simVars>>

CoreNext == CoreLevelNode \/ CoreResetNode

SpecCore == CoreInit /\ [][CoreNext]_vars

\* one framework instance serving calls one after the other
HexaInit == CoreInit

SpecHexa == HexaInit /\ [][HexaNext]_vars

\* one spell trace framework, built with either setting of greedyFinish
\* (SpellTraceFramework.__init__), serving calls one after the other
STInit ==
    /\ nodeLevel = INIT_LEVEL
    /\ statLevels = <<INIT_LEVEL, INIT_LEVEL, INIT_LEVEL>>
    /\ coreRet = NoCall
    /\ HexaFrameworkInit
    /\ greedyAfterInno \in BOOLEAN
    /\ STIdle
    /\ MarkovSimInit

SpecST == STInit /\ [][STNext]_vars

----------------------------------------------------------------------------
(* SpellTraceFramework.performTrial without a bound on its draws           *)

\* The loop of performTrial and the loop of simulateForcePassedScroll test
\* the slot state alone (lines 128, 130, 145, 154, 171, 211): the costs and
\* the pass, fail and save counters are written and never read before the
\* return.  slotState keeps what the tests read, so that a trial of any
\* length has finitely many states.
slotState(l) ==
    [l EXCEPT !.innoCosts = 0, !.scrollCosts = 0, !.cssCosts = 0,
              !.hammerCosts = 0,
              !.fScrolls = 0, !.fInnos = 0, !.fCSS = 0, !.fHammers = 0,
              !.pScrolls = 0, !.pInnos = 0, !.pCSS = 0, !.pHammers = 0,
              !.numGS = 0, !.curCost = 0, !.curFails = 0]

\* the argument maps of the unbounded trials.  The scroll, innocence and
\* clean slate rates are one half: a draw can fall on either side of it,
\* and what a rate of 1 allows, one half allows too.  The hammer and guild
\* rates are 0 or one half.
LiveRates == {0, HalfRate}

LiveArgs ==
    {a \in STArgs :
        /\ a.scrollRate = HalfRate
        /\ a.innoRate = HalfRate
        /\ a.cssRate = HalfRate
        /\ a.hammerRate \in LiveRates
        /\ a.guildSaveRate \in LiveRates}

\* performTrial is called (lines 108-125)
liveCall ==
    /\ spc = "idle"
    /\ \E a \in LiveArgs : sargs' = a /\ sl' = trialLocals(a)
    /\ spc' = "loop"
    /\ UNCHANGED <<sRet, greedyAfterInno, coreVars, hexaVars, simVars>>

\* lines 130-136: a slot is available and the scroll passes
liveScrollPass ==
    /\ spc = "loop"
    /\ sl.curPassed < sl.totSlots
    /\ sl.availSlots > 0
    /\ \E u \in STDraws :
        /\ scrollPassed(u, sargs.scrollRate)
        /\ sl' = slotState(scrollPass(sl, sargs))
    /\ spc' = "esc"
    /\ UNCHANGED <<sargs, sRet, greedyAfterInno, coreVars, hexaVars, simVars>>

\* lines 130-142: a slot is available and the scroll fails; a second draw
\* decides the guild slot saving
liveScrollFail ==
    /\ spc = "loop"
    /\ sl.curPassed < sl.totSlots
    /\ sl.availSlots > 0
    /\ \E u, v \in STDraws :
        /\ ~scrollPassed(u, sargs.scrollRate)
        /\ sl' = slotState(scrollFail(sl, sargs,
                                      guildSaved(v, sargs.guildSaveRate)))
    /\ spc' = "esc"
    /\ UNCHANGED <<sargs, sRet, greedyAfterInno, coreVars, hexaVars, simVars>>

\* lines 211-213 for the innocence scroll: a draw above the rate
liveInnoRetry ==
    /\ spc = "inno"
    /\ \E u \in STDraws : forcedScrollFails(u, sargs.innoRate)
    /\ sl' = slotState(forcedScrollRetry(sl, sargs.innoCost))
    /\ UNCHANGED <<spc, sargs, sRet, greedyAfterInno, coreVars, hexaVars, simVars>>

\* the innocence scroll passes: lines 215, 147-153
liveInnoPass ==
    /\ spc = "inno"
    /\ \E u \in STDraws : ~forcedScrollFails(u, sargs.innoRate)
    /\ sl' = slotState(innoDone(sl, sargs))
    /\ spc' = "loop"
    /\ UNCHANGED <<sargs, sRet, greedyAfterInno, coreVars, hexaVars, simVars>>

\* lines 154-170: a hammer is used
liveHammer ==
    /\ spc = "esc"
    /\ mustHammer(sl, sargs)
    /\ \E u \in STDraws :
        sl' = slotState(hammerUse(sl, sargs,
                                  hammProcSucc(u, sargs.hammerRate),
                                  greedyAfterInno))
    /\ spc' = "loop"
    /\ UNCHANGED <<sargs, sRet, greedyAfterInno, coreVars, hexaVars, simVars>>

\* lines 211-213 for the clean slate scroll: a draw above the rate
liveCSSRetry ==
    /\ spc = "css"
    /\ \E u \in STDraws : forcedScrollFails(u, sargs.cssRate)
    /\ sl' = slotState(forcedScrollRetry(sl, sargs.cssCost))
    /\ UNCHANGED <<spc, sargs, sRet, greedyAfterInno, coreVars, hexaVars, simVars>>

\* the clean slate scroll passes: lines 215, 173-180
liveCSSPass ==
    /\ spc = "css"
    /\ \E u \in STDraws : ~forcedScrollFails(u, sargs.cssRate)
    /\ sl' = slotState(cssDone(sl, sargs))
    /\ spc' = "loop"
    /\ UNCHANGED <<sargs, sRet, greedyAfterInno, coreVars, hexaVars, simVars>>

LiveNext ==
    \/ liveCall
    \/ stReturn
    \/ liveScrollPass
    \/ liveScrollFail
    \/ stNoSlot
    \/ stInnoStart
    \/ liveInnoRetry
    \/ liveInnoPass
    \/ liveHammer
    \/ stCSSStart
    \/ liveCSSRetry
    \/ liveCSSPass
    \/ stNoEscalation
    \/ stDone

\* The interpreter runs the statement the call is at (weak fairness of
\* every step of a trial).  A draw of the rng that can fall on either side
\* of a rate does not fall on the failing side for ever: the forced scroll
\* passes in the end, and so do the scroll at each number of slots passed
\* and the first and the second hammer (strong fairness of the passing
\* outcome).
LiveFairness ==
    /\ WF_vars(stReturn)
    /\ WF_vars(liveScrollPass \/ liveScrollFail)
    /\ WF_vars(stNoSlot)
    /\ WF_vars(stInnoStart)
    /\ WF_vars(liveInnoRetry \/ liveInnoPass)
    /\ WF_vars(liveHammer)
    /\ WF_vars(stCSSStart)
    /\ WF_vars(liveCSSRetry \/ liveCSSPass)
    /\ WF_vars(stNoEscalation)
    /\ SF_vars(liveInnoPass)
    /\ SF_vars(liveCSSPass)
    /\ \A p \in 0..(MaxSlots + 1) :
          SF_vars(liveScrollPass /\ sl.curPassed = p)
    /\ \A h \in 0..1 :
          SF_vars(liveHammer /\ sl.eqpHammers = h
                    /\ sl'.availSlots = sl.availSlots + 1)

SpecSTLive == STInit /\ [][LiveNext]_vars /\ LiveFairness

\* one harness and the engines it can hold
SimInit == CoreInit

SpecSim == SimInit /\ [][SimNext]_vars

----------------------------------------------------------------------------
(* Properties of the leveling core (SpecCore)                              *)

SumStats(stats) == stats[1] + stats[2] + stats[3]

\* C1: after any sequence of level-ups and resets, for any draws, the stat
\* levels sum to node level + 2, every stat level is in 1..10 and the node
\* level is in 1..20; every successful level-up adds one to the node level
\* and to exactly one stat, so 19 of them from the initial state reach node
\* level 20 with the stat levels summing to 22.
C1_LevelingInvariant ==
    /\ SumStats(statLevels) - 3 = nodeLevel - 1
    /\ \A i \in 1..3 : statLevels[i] \in 1..MAX_STAT_LEVEL
    /\ nodeLevel \in 1..MAX_LEVEL
    /\ (coreRet.op = "levelNode" /\ coreRet.exc = "none") =>
          /\ nodeLevel = coreRet.fromLevel + 1
          /\ \E i \in 1..3 :
                statLevels = [coreRet.fromStats EXCEPT ![i] = @ + 1]
    /\ nodeLevel = MAX_LEVEL => SumStats(statLevels) = 22

\* a level-up brought the core to node level 20 with two stats at their cap
C1_Witness ==
    /\ nodeLevel = MAX_LEVEL
    /\ coreRet.op = "levelNode"
    /\ coreRet.exc = "none"
    /\ Cardinality({i \in 1..3 : statLevels[i] = MAX_STAT_LEVEL}) = 2

\* C7: resetNode at node level >= 10 yields node level 1 and stat levels
\* [1,1,1]; below 10 it fails with ResetTooEarly and changes nothing.
C7_ResetNode ==
    coreRet.op = "resetNode" =>
        IF coreRet.fromLevel >= 10
        THEN /\ coreRet.exc = "none"
             /\ nodeLevel = 1
             /\ statLevels = <<1, 1, 1>>
        ELSE /\ coreRet.exc = "ResetTooEarly"
             /\ nodeLevel = coreRet.fromLevel
             /\ statLevels = coreRet.fromStats

\* a reset was refused one level short of the threshold
C7_Witness ==
    /\ coreRet.op = "resetNode"
    /\ coreRet.fromLevel = 9
    /\ coreRet.exc = "ResetTooEarly"
    /\ nodeLevel = 9

\* C8: levelNode at node level 20 fails with LevelCapExceeded, takes no
\* draw and changes neither the node level nor a stat level; at every node
\* level below 20 it succeeds.
C8_LevelCap ==
    coreRet.op = "levelNode" =>
        IF coreRet.fromLevel = 20
        THEN /\ coreRet.exc = "LevelCapExceeded"
             /\ coreRet.draws = 0
             /\ nodeLevel = 20
             /\ statLevels = coreRet.fromStats
        ELSE /\ coreRet.exc = "none"
             /\ coreRet.draws = 1
             /\ nodeLevel = coreRet.fromLevel + 1

\* a level-up was refused at node level 20
C8_Witness ==
    /\ coreRet.op = "levelNode"
    /\ coreRet.fromLevel = 20
    /\ coreRet.exc = "LevelCapExceeded"

----------------------------------------------------------------------------
(* Properties of the leveling framework (SpecHexa)                         *)

\* the call in progress passed the argument checks and the policy refresh
\* and runs, ran or left its loop
EnteredLoop ==
    \/ hpc \in {"loop", "returned"}
    \/ hpc = "raised" /\ hexaRet.exc \notin {"ValueError", "TypeError",
                                             "OSError"}

\* the policy answers "enhance" at every state with node level below 20
EnhancesBelow20(pol) ==
    \A k \in PolicyKeys :
        k[1] < MAX_LEVEL => policyLookup(pol, k) = "enhance"

C3_DefaultPolicyCoversTarget ==
    (PolicyFile(hargs.policyPath).kind = "missing" /\ ~injected) =>
        /\ hpc = "loop" =>
              \A p \in 1..(hargs.target - 1) :
                  policyLookup(policy, <<MAX_LEVEL, p>>) = "reset"
        /\ hpc = "raised" => hexaRet.exc # "LevelCapExceeded"

\* C4: with a budget B > 0 the accumulated fragment cost never passes B, in
\* the loop and in the returned totalFragCost.
C4_BudgetRespected ==
    (hargs.erdaFragLim > 0 /\ hpc \in {"loop", "returned"}) =>
        /\ totCost <= hargs.erdaFragLim
        /\ hpc = "returned" => hexaRet.totalFragCost <= hargs.erdaFragLim

\* a trial stopped by its budget after some level-ups, the next one of
\* which would have passed the budget
C4_Witness ==
    /\ hpc = "returned"
    /\ hargs.erdaFragLim > 0
    /\ nodeLevel < MAX_LEVEL
    /\ hexaRet.totalEnhances > 0
    /\ hexaRet.totalFragCost + curFragCost(statLevels) > hargs.erdaFragLim

\* C5: a state the installed table does not map is answered with enhance,
\* and the trial does not fail on the lookup.
C5_UnmappedDefaultsToEnhance ==
    /\ hpc = "loop" =>
          \A k \in PolicyKeys \ DOMAIN policy.tbl :
              policyLookup(policy, k) = "enhance"
    /\ hpc = "raised" => hexaRet.exc # "KeyError"

\* C6: a policy load that fails, because the path is missing or unreadable
\* or because the object is no mapping, does not make performTrial raise:
\* the call runs its loop under the default policy for its target.
C6_LoadFailureFallsBack ==
    (hpc \in {"loop", "returned", "raised"}
        /\ PolicyFile(hargs.policyPath).kind
               \in {"missing", "unreadable", "notdict"}
        /\ hargs.target <= MAX_STAT_LEVEL /\ hargs.erdaFragLim >= 0) =>
        /\ hexaRet.exc \notin {"TypeError", "OSError"}
        /\ (hpc = "loop" /\ ~injected) =>
              \A p \in 1..(hargs.target - 1) :
                  policyLookup(policy, <<MAX_LEVEL, p>>) = "reset"

----------------------------------------------------------------------------
(* Properties of the spell trace framework (SpecST)                        *)

\* C9 as stated: after each scroll and after each escalation step, the
\* available slots and the passed slots add up to the total target (N, or
\* N + 2 with hammers).
C9_AvailPlusPassed ==
    (spc \in {"loop", "esc"} /\ sl.lastOp # "none") =>
        sl.availSlots + sl.curPassed = sl.totSlots

\* C9 as amended: at every point of a trial the available, the passed and
\* the failed slots add up to N plus the hammers used since the last
\* innocence scroll (0..2, none without hammers); the total target is N, or
\* N + 2 with hammers, so available + passed equals the total target
\* exactly when no failed slot is outstanding and, with hammers, both
\* hammers have been used.
C9_SlotAccounting ==
    spc # "idle" =>
        /\ sl.availSlots + sl.curPassed + sl.curFailed
               = sargs.eqpSlots + sl.eqpHammers
        /\ sl.eqpHammers \in 0..2
        /\ ~sargs.useHammer => sl.eqpHammers = 0
        /\ sl.totSlots = sargs.eqpSlots + (IF sargs.useHammer THEN 2 ELSE 0)
        /\ (sl.availSlots + sl.curPassed = sl.totSlots) <=>
              /\ sl.curFailed = 0
              /\ sargs.useHammer => sl.eqpHammers = 2

\* a clean slate scroll passed after both hammers were used, with a failed
\* slot still outstanding
C9_Witness ==
    /\ spc = "loop"
    /\ sl.lastOp = "css"
    /\ sl.eqpHammers = 2
    /\ sl.curFailed > 0
    /\ sl.availSlots > 0

\* C10: with scrollRate 1.0, no hammers and a tolerance >= 0, for any N and
\* any other arguments, the trial takes no other step than passing
\* scrolls, and returns totalTraceCost = scrollTraceCost = N * scrollCost,
\* numPassedScrolls = N and zero for every other cost and counter.
C10_AllPassNoHammer ==
    (spc # "idle" /\ sargs.scrollRate = FullRate /\ ~sargs.useHammer) =>
        /\ spc \notin {"inno", "css"}
        /\ sl.lastOp \in {"none", "scroll"}
        /\ trialResult(sl) =
              [NoSTResult EXCEPT
                  !.totalTraceCost = sl.pScrolls * sargs.scrollCost,
                  !.scrollTraceCost = sl.pScrolls * sargs.scrollCost,
                  !.numPassedScrolls = sl.pScrolls]
        /\ sl.pScrolls <= sargs.eqpSlots
        /\ spc = "done" =>
              sRet = [NoSTResult EXCEPT
                         !.totalTraceCost = sargs.eqpSlots * sargs.scrollCost,
                         !.scrollTraceCost = sargs.eqpSlots * sargs.scrollCost,
                         !.numPassedScrolls = sargs.eqpSlots]

\* such a trial returned after passing two scrolls or more
C10_Witness ==
    /\ spc = "done"
    /\ sargs.scrollRate = FullRate
    /\ ~sargs.useHammer
    /\ sargs.eqpSlots >= 2
    /\ sRet.numPassedScrolls = sargs.eqpSlots
    /\ sRet.totalTraceCost = sargs.eqpSlots * sargs.scrollCost

\* the trial in progress passes every scroll and every hammer
AllPassWithHammer ==
    /\ spc # "idle"
    /\ sargs.scrollRate = FullRate
    /\ sargs.useHammer
    /\ sargs.hammerRate = FullRate

\* C11 as stated: with scrollRate 1.0, hammers and hammerRate 1.0, for any
\* N, the trial returns totalTraceCost = N * scrollCost + 2 * hammerCost,
\* numPassedScrolls = N + 2 and numPassedHammers = 2.
C11_TotalOfNScrolls ==
    (AllPassWithHammer /\ spc = "done") =>
        /\ sRet.totalTraceCost =
               sargs.eqpSlots * sargs.scrollCost + 2 * sargs.hammerCost
        /\ sRet.numPassedScrolls = sargs.eqpSlots + 2
        /\ sRet.numPassedHammers = 2

\* C11 as amended: with scrollRate 1.0, hammers and hammerRate 1.0, for any
\* N, the trial returns totalTraceCost = (N + 2) * scrollCost
\* + 2 * hammerCost (each of the N + 2 passed scrolls is charged),
\* numPassedScrolls = N + 2 and numPassedHammers = 2.
C11_TotalOfAllScrolls ==
    (AllPassWithHammer /\ spc = "done") =>
        /\ sRet.totalTraceCost =
               (sargs.eqpSlots + 2) * sargs.scrollCost + 2 * sargs.hammerCost
        /\ sRet.numPassedScrolls = sargs.eqpSlots + 2
        /\ sRet.numPassedHammers = 2

\* such a trial on an item of one slot or more returned
C11_Witness ==
    /\ AllPassWithHammer
    /\ spc = "done"
    /\ sargs.eqpSlots >= 1
    /\ sRet.numPassedScrolls = sargs.eqpSlots + 2
    /\ sRet.numPassedHammers = 2
    /\ sRet.totalTraceCost > sargs.eqpSlots * sargs.scrollCost
                                 + 2 * sargs.hammerCost

\* C12: with scrollRate 1.0, hammers, hammerRate 1.0 and a tolerance >= 0,
\* for any N >= 0, the trial takes no innocence or clean slate step, never
\* uses more than two hammers, and returns scrollTraceCost = (N + 2) *
\* scrollCost, hammerTraceCost = 2 * hammerCost, totalTraceCost their sum,
\* numPassedScrolls = N + 2, numPassedHammers = 2 and zero for every
\* innocence, clean slate, failure and guild save counter and cost.
C12_AllPassWithHammer ==
    (AllPassWithHammer /\ sargs.innoAfterTol >= 0) =>
        /\ spc \notin {"inno", "css"}
        /\ sl.lastOp \in {"none", "scroll", "hammer"}
        /\ sl.pHammers <= 2
        /\ spc = "done" =>
              sRet = [NoSTResult EXCEPT
                         !.scrollTraceCost =
                             (sargs.eqpSlots + 2) * sargs.scrollCost,
                         !.hammerTraceCost = 2 * sargs.hammerCost,
                         !.totalTraceCost =
                             (sargs.eqpSlots + 2) * sargs.scrollCost
                                 + 2 * sargs.hammerCost,
                         !.numPassedScrolls = sargs.eqpSlots + 2,
                         !.numPassedHammers = 2]

\* such a trial on an item without slots returned: both scrolls went into
\* hammer slots
C12_Witness ==
    /\ AllPassWithHammer
    /\ spc = "done"
    /\ sargs.eqpSlots = 0
    /\ sl.eqpHammers = 2
    /\ sRet.scrollTraceCost = 2 * sargs.scrollCost
    /\ sRet.hammerTraceCost = 2 * sargs.hammerCost

\* the trial in progress saves the slot of every failed scroll
AllSaved ==
    /\ spc # "idle"
    /\ sargs.guildSaveRate = FullRate
    /\ sargs.scrollRate < FullRate

\* C13 as stated: with guildSaveRate 1.0 and scrollRate < 1.0, with or
\* without hammers, the trial returns numFailedScrolls = numGuildSaves and
\* no innocence, clean slate or hammer cost is incurred at any point of the
\* trial.
C13_NoOtherCost ==
    AllSaved =>
        /\ sl.innoCosts = 0
        /\ sl.cssCosts = 0
        /\ sl.hammerCosts = 0
        /\ spc = "done" => sRet.numFailedScrolls = sRet.numGuildSaves

\* C13 as amended: with guildSaveRate 1.0 and scrollRate < 1.0 the failed
\* scrolls and the guild saves are equal in number at every point and at
\* return.  Without hammers no innocence, clean slate or hammer cost is
\* incurred.  With hammers each hammer used is charged hammerCost, so the
\* trial returns hammerTraceCost >= 2 * hammerCost; with hammerRate 1.0 it
\* is exactly 2 * hammerCost and no innocence or clean slate cost is
\* incurred.
C13_AllSaved ==
    AllSaved =>
        /\ sl.fScrolls = sl.numGS
        /\ sl.hammerCosts = (sl.pHammers + sl.fHammers) * sargs.hammerCost
        /\ spc = "done" =>
              /\ sRet.numFailedScrolls = sRet.numGuildSaves
              /\ sargs.useHammer =>
                    sRet.hammerTraceCost >= 2 * sargs.hammerCost
        /\ ~sargs.useHammer =>
              /\ spc \notin {"inno", "css"}
              /\ sl.innoCosts = 0 /\ sl.cssCosts = 0 /\ sl.hammerCosts = 0
        /\ (sargs.useHammer /\ sargs.hammerRate = FullRate) =>
              /\ spc \notin {"inno", "css"}
              /\ sl.innoCosts = 0 /\ sl.cssCosts = 0
              /\ sl.fHammers = 0 /\ sl.pHammers <= 2
              /\ spc = "done" =>
                    sRet.hammerTraceCost = 2 * sargs.hammerCost

\* a trial with hammers returned after a failed scroll whose slot was saved
C13_Witness ==
    /\ AllSaved
    /\ spc = "done"
    /\ sargs.useHammer
    /\ sRet.numFailedScrolls > 0
    /\ sRet.numFailedScrolls = sRet.numGuildSaves
    /\ sRet.hammerTraceCost > 0

\* C14: a framework built with the default greedyFinish, called with
\* tolerance 0, guildSaveRate 0, innoRate 1.0 and hammerRate 1.0, with or
\* without hammers: every failed scroll is followed by exactly one
\* innocence scroll, so the trial returns numFailedScrolls =
\* numPassedInnos, and the clean slate scroll is never run (cssTraceCost
\* stays 0).
C14_EveryFailureRestarts ==
    (/\ spc # "idle"
     /\ greedyAfterInno
     /\ sargs.innoAfterTol = 0
     /\ sargs.guildSaveRate = 0
     /\ sargs.innoRate = FullRate
     /\ sargs.hammerRate = FullRate) =>
        /\ spc # "css"
        /\ sl.cssCosts = 0
        /\ spc = "done" =>
              /\ sRet.numFailedScrolls = sRet.numPassedInnos
              /\ sRet.cssTraceCost = 0

\* C15: with a tolerance >= the total target (N, or N + 2 with hammers),
\* guildSaveRate 0 and hammerRate 1.0, with or without hammers, the
\* innocence scroll is never run (innoTraceCost and numPassedInnos stay 0)
\* and every failed scroll is repaired by exactly one clean slate scroll:
\* at every point the failed scrolls are the clean slate scrolls passed
\* plus the failed slots outstanding, and the trial returns
\* numFailedScrolls = numPassedCSS.
C15_OnlyCleanSlate ==
    (/\ spc # "idle"
     /\ sargs.innoAfterTol >= sl.totSlots
     /\ sargs.guildSaveRate = 0
     /\ sargs.hammerRate = FullRate) =>
        /\ spc # "inno"
        /\ sl.innoCosts = 0 /\ sl.pInnos = 0 /\ sl.fInnos = 0
        /\ sl.fScrolls = sl.pCSS + sl.curFailed
        /\ spc = "done" =>
              /\ sRet.numFailedScrolls = sRet.numPassedCSS
              /\ sRet.innoTraceCost = 0
              /\ sRet.numPassedInnos = 0

\* such a trial with hammers returned after a clean slate scroll repaired
\* a failed scroll
C15_Witness ==
    /\ spc = "done"
    /\ sargs.innoAfterTol >= sl.totSlots
    /\ sargs.guildSaveRate = 0
    /\ sargs.hammerRate = FullRate
    /\ sargs.useHammer
    /\ sRet.numFailedScrolls > 0
    /\ sRet.numPassedCSS = sRet.numFailedScrolls

\* C16: every trial that returns, whatever N >= 0, the tolerance >= 0, the
\* hammer setting and the rates, returns totalTraceCost >= N * scrollCost:
\* every scroll used is charged, and the scrolls passed are at least the
\* total target.
C16_CostAtLeastNScrolls ==
    /\ spc # "idle" =>
          /\ sl.scrollCosts = (sl.pScrolls + sl.fScrolls) * sargs.scrollCost
          /\ sl.pScrolls >= sl.curPassed
    /\ spc = "done" =>
          /\ sRet.numPassedScrolls >= sl.totSlots
          /\ sRet.totalTraceCost >= sargs.eqpSlots * sargs.scrollCost

\* a trial on an item with slots returned after an innocence scroll had
\* wiped the passed slots
C16_Witness ==
    /\ spc = "done"
    /\ sargs.eqpSlots >= 1
    /\ sRet.numPassedInnos > 0
    /\ sRet.numPassedScrolls > sl.totSlots
    /\ sRet.totalTraceCost >= sargs.eqpSlots * sargs.scrollCost

----------------------------------------------------------------------------
(* Properties of the simulation harness (SpecSim)                          *)

\* the product of the numbers of candidates of the names ks of a grid dict
RECURSIVE gridProductOver(_, _)
gridProductOver(gridArgs, ks) ==
    IF ks = {} THEN 1
    ELSE LET k == CHOOSE x \in ks : TRUE IN
         Len(gridArgs[k]) * gridProductOver(gridArgs, ks \ {k})

gridProduct(gridArgs) == gridProductOver(gridArgs, DOMAIN gridArgs)

\* a gridSearch call on the engine of the tests has returned, and its grid
\* names and static names together are the declared names
GridSearchReturned ==
    /\ mpc = "returned"
    /\ mcall.op = "gridSearch"
    /\ mcall.numTrials >= 0
    /\ mcall.fw = "DummyFramework"
    /\ DOMAIN mcall.gridArgs \cap DOMAIN mcall.simArgs = {}
    /\ DOMAIN mcall.gridArgs \cup DOMAIN mcall.simArgs
           = declaredNames("DummyFramework")

\* C17: gridSearch(numTrials, gridArgs, simArgs) returns one bucket for
\* each combination of the candidates of gridArgs (their product in
\* number, one bucket for an empty gridArgs), each bucket holds numTrials
\* results, and the engine has been invoked numTrials times the product.
C17_GridSearchBuckets ==
    GridSearchReturned =>
        /\ mRet.kind = "dict"
        /\ Cardinality(DOMAIN mRet.val) = gridProduct(mcall.gridArgs)
        /\ \A c \in DOMAIN mRet.val : Len(mRet.val[c]) = mcall.numTrials
        /\ numExecutions = mcall.invokedBefore
               + mcall.numTrials * gridProduct(mcall.gridArgs)

\* the dict handed to simulate passes checkInvalidArgs of the engine
validArgs(fw, argDict) ==
    LET chk == checkInvalidArgs(fw, argDict) IN
    chk.exc = "none" /\ chk.invalidArgs = <<>>

\* C18: simulate with numTrials < 0 raises ValueError without invoking the
\* engine.  With numTrials >= 0 the list it returns is resList, holds
\* numTrials results in the order of the trials, and the engine was
\* invoked numTrials times during the call; with a dict that passes the
\* check the engine of the tests never makes the call fail.  Between
\* calls the engine's count of executions is the sum of the numbers of
\* trials of the calls that returned.
C18_SimulateTrials ==
    /\ (mpc = "returned" /\ mcall.op = "simulate" /\ mcall.numTrials < 0) =>
          /\ mRet = SimRaised("ValueError", "simulate")
          /\ simHist.invoked[mcall.fw] = mcall.invokedBefore
    /\ (mcall.op = "simulate" /\ mcall.numTrials >= 0) =>
          /\ Len(resList) <= mcall.numTrials
          /\ simHist.invoked[mcall.fw] - mcall.invokedBefore =
                Len(resList)
                  + (IF mpc = "trial" \/ mRet.by = "performTrial"
                     THEN 1 ELSE 0)
          /\ mRet.kind = "list" =>
                /\ mRet.val = resList
                /\ Len(mRet.val) = mcall.numTrials
                /\ simHist.invoked[mcall.fw] - mcall.invokedBefore
                       = mcall.numTrials
          /\ (mcall.fw = "DummyFramework"
                  /\ validArgs(mcall.fw, mcall.simArgs)) =>
                /\ mRet.kind # "raised"
                /\ mpc = "returned" => mRet.kind = "list"
                /\ \A i \in DOMAIN resList :
                      resList[i] = dummyResult(mcall.simArgs)
    /\ numExecutions = simHist.invoked["DummyFramework"]
    /\ mpc = "idle" =>
          numExecutions = simHist.requested["DummyFramework"]

\* a second simulate call on the engine of the tests returned its list of
\* MaxTrials results
C18_Witness ==
    /\ mpc = "returned"
    /\ mcall.op = "simulate"
    /\ mcall.fw = "DummyFramework"
    /\ mcall.numTrials = MaxTrials
    /\ mcall.invokedBefore > 0
    /\ mRet.kind = "list"
    /\ Len(mRet.val) = MaxTrials
    /\ numExecutions = mcall.invokedBefore + MaxTrials

\* C19: for each seeded engine of the harness, over all simulate calls,
\* all trials of a call and all resets or restarts of a trial, the n-th
\* draw consumed is the n-th value of the engine's rng: the draws read the
\* positions 1, 2, 3, ... of one stream, and the rng has produced as many
\* values as were consumed.
C19_ContinuousStream ==
    \A fw \in SeededFrameworks :
        /\ Len(simHist.reads[fw]) = rngPos[fw]
        /\ \A n \in DOMAIN simHist.reads[fw] : simHist.reads[fw][n] = n
        /\ (mpc = "trial" /\ curFramework = fw) =>
              \A i \in DOMAIN trial.reads :
                  trial.reads[i] = rngPos[fw] - Len(trial.reads) + i

\* a trial of a later simulate call, after a reset or restart, has read a
\* value that follows those read by the calls before it
C19_Witness ==
    /\ mpc = "trial"
    /\ curFramework \in SeededFrameworks
    /\ mcall.invokedBefore > 0
    /\ Len(resList) > 0
    /\ trial.resets > 0
    /\ Len(trial.reads) > 0
    /\ trial.reads[1] > 2

\* C21: checkInvalidArgs raises its ValueError for the argument count or
\* names whenever the keys of the dict handed in are not exactly the
\* declared names of the engine (a name missing, a name too many, or one
\* missing and one too many at the same size), also when a value handed in
\* is of a wrong type: no list of invalid names is returned then.
C21_KeyMismatchRaises ==
    (/\ mpc = "returned"
     /\ mcall.op = "checkInvalidArgs"
     /\ DOMAIN mcall.simArgs # declaredNames(mcall.fw)) =>
        /\ mRet = SimRaised("ValueError", "checkInvalidArgs")
        /\ mRet.kind # "list"

\* a dict of the declared size with one declared name missing, another
\* name instead and a wrong-typed value for a declared name was refused
C21_Witness ==
    /\ mpc = "returned"
    /\ mcall.op = "checkInvalidArgs"
    /\ Cardinality(DOMAIN mcall.simArgs) = Len(ARG_TYPES(mcall.fw))
    /\ DOMAIN mcall.simArgs # declaredNames(mcall.fw)
    /\ \E i \in DOMAIN ARG_TYPES(mcall.fw) :
          LET e == ARG_TYPES(mcall.fw)[i] IN
          /\ e.name \in DOMAIN mcall.simArgs
          /\ mcall.simArgs[e.name].t \notin e.types \cup {"bool"}
    /\ mRet.kind = "raised"
    /\ mRet.exc = "ValueError"

\* a value passes the type check of a declared name when its type is one
\* of the accepted types; a bool is an int
acceptedValue(val, types) ==
    \/ val.t \in types
    \/ val.t = "bool" /\ "int" \in types

\* the place of a declared name in the declaration of an engine
declaredPos(fw, name) ==
    CHOOSE i \in DOMAIN ARG_TYPES(fw) : ARG_TYPES(fw)[i].name = name

\* C22: for a dict whose keys are exactly the declared names,
\* checkInvalidArgs returns the declared names whose value is of no
\* accepted type, each once and in declared order; the list is empty
\* exactly when every value passes its type check.
C22_ExactInvalidNames ==
    (/\ mpc = "returned"
     /\ mcall.op = "checkInvalidArgs"
     /\ DOMAIN mcall.simArgs = declaredNames(mcall.fw)) =>
        LET decl == ARG_TYPES(mcall.fw)
            badNames == {decl[i].name : i \in
                           {j \in DOMAIN decl :
                              ~acceptedValue(mcall.simArgs[decl[j].name],
                                             decl[j].types)}}
        IN /\ mRet.kind = "list"
           /\ {mRet.val[j] : j \in DOMAIN mRet.val} = badNames
           /\ Len(mRet.val) = Cardinality(badNames)
           /\ \A j, k \in DOMAIN mRet.val :
                 j < k => declaredPos(mcall.fw, mRet.val[j])
                            < declaredPos(mcall.fw, mRet.val[k])
           /\ (mRet.val = <<>>) <=>
                 \A i \in DOMAIN decl :
                     acceptedValue(mcall.simArgs[decl[i].name], decl[i].types)

\* the dict of test_check_invalid_args, two values of a wrong type, gave
\* the two names in declared order
C22_Witness ==
    /\ mpc = "returned"
    /\ mcall.op = "checkInvalidArgs"
    /\ mcall.fw = "Framework"
    /\ mRet.kind = "list"
    /\ mRet.val = <<"EXAMPLE2", "EXAMPLE3">>

\* C23: checkAndPerformTrial runs the trial once, with the mapped
\* arguments, when checkInvalidArgs returns no name; when checkInvalidArgs
\* returns names, it raises an error that carries these names, and the
\* trial is not run.
C23_ValidatedTrial ==
    (/\ mpc = "returned"
     /\ mcall.op = "simulate"
     /\ mcall.numTrials = 1) =>
        LET chk == checkInvalidArgs(mcall.fw, mcall.simArgs)
            kw == mapArgs(mcall.fw, mcall.simArgs)
        IN /\ validArgs(mcall.fw, mcall.simArgs) =>
                 /\ simHist.invoked[mcall.fw] = mcall.invokedBefore + 1
                 /\ mcall.fw = "DummyFramework" =>
                       mRet = SimList(<<dummyResult(kw.dict)>>)
           /\ (chk.exc = "none" /\ chk.invalidArgs # <<>>) =>
                 /\ mRet.kind = "raised"
                 /\ mRet.by = "checkAndPerformTrial"
                 /\ simHist.invoked[mcall.fw] = mcall.invokedBefore
                 /\ mRet.val = chk.invalidArgs

\* C24: mapArgs returns the dict handed in when the engine declares no
\* ARG_MAPPING; when it declares one and every key of the dict is a user
\* name of it, mapArgs returns a dict of as many entries that holds, for
\* each entry k -> v handed in, the entry ARG_MAPPING[k] -> v.
C24_MapArgsRenames ==
    (mpc = "returned" /\ mcall.op = "mapArgs") =>
        LET mapping == ARG_MAPPING(mcall.fw)
            userNames == {pr[1] : pr \in mapping}
        IN IF mapping = {}
           THEN mRet.kind = "dict" /\ mRet.val = mcall.simArgs
           ELSE DOMAIN mcall.simArgs \subseteq userNames =>
                  /\ mRet.kind = "dict"
                  /\ Cardinality(DOMAIN mRet.val)
                        = Cardinality(DOMAIN mcall.simArgs)
                  /\ \A pr \in mapping :
                        pr[1] \in DOMAIN mcall.simArgs =>
                           /\ pr[2] \in DOMAIN mRet.val
                           /\ mRet.val[pr[2]] = mcall.simArgs[pr[1]]

\* mapArgs of an engine with an ARG_MAPPING renamed a dict of two of its
\* three user names
C24_Witness ==
    /\ mpc = "returned"
    /\ mcall.op = "mapArgs"
    /\ ARG_MAPPING(mcall.fw) # {}
    /\ DOMAIN mcall.simArgs = {"Target Primary Level", "Erda Frag Limit"}
    /\ mRet.kind = "dict"
    /\ DOMAIN mRet.val = {"target", "erdaFragLim"}

\* the positions of the stats the last levelNode call raised by one
raisedStats ==
    {i \in 1..3 : statLevels[i] = coreRet.fromStats[i] + 1}

\* the last levelNode call took its draw below the rate of a primary stat
\* that is not maxed
primaryChosen ==
    /\ coreRet.fromStats[PRIM_ARG_POS] < MAX_STAT_LEVEL
    /\ coreRet.roll < P_SUCC_VALS[coreRet.fromStats[PRIM_ARG_POS]]

\* C25: a level-up raises one stat, chosen in this order: the primary stat
\* when it is below 10 and the draw is below the success rate of its
\* level; else the primary stat when both secondary stats are at 10; else
\* the secondary stat that is not at 10 when one of them is; a stat at 10
\* is never the one raised.
C25_OrderedRule ==
    (coreRet.op = "levelNode" /\ coreRet.exc = "none") =>
        LET from == coreRet.fromStats IN
        /\ Cardinality(raisedStats) = 1
        /\ \A i \in 1..3 : i \notin raisedStats => statLevels[i] = from[i]
        /\ \A i \in raisedStats : from[i] < MAX_STAT_LEVEL
        /\ IF primaryChosen THEN raisedStats = {PRIM_ARG_POS}
           ELSE IF from[SEC_ARG_POS] = 10 /\ from[THIRD_ARG_POS] = 10
           THEN raisedStats = {PRIM_ARG_POS}
           ELSE IF from[SEC_ARG_POS] = 10 THEN raisedStats = {THIRD_ARG_POS}
           ELSE IF from[THIRD_ARG_POS] = 10 THEN raisedStats = {SEC_ARG_POS}
           ELSE raisedStats \subseteq {SEC_ARG_POS, THIRD_ARG_POS}

\* with both secondary stats at 10, a draw that is not below the rate of
\* the primary stat raised the primary stat
C25_Witness ==
    /\ coreRet.op = "levelNode"
    /\ coreRet.exc = "none"
    /\ coreRet.fromStats[SEC_ARG_POS] = 10
    /\ coreRet.fromStats[THIRD_ARG_POS] = 10
    /\ ~primaryChosen
    /\ raisedStats = {PRIM_ARG_POS}

\* C26: when the primary stat is not chosen and no secondary stat is at
\* 10, with p the success rate of the primary level and u the draw, the
\* first secondary stat is raised exactly when p <= u < p + (1 - p)/2 and
\* the second exactly when p + (1 - p)/2 <= u < 1 (in hundredths:
\* 2u < 1 + p, 2u >= 1 + p), two intervals of the same length (1 - p)/2;
\* the draw u = p raises the first secondary stat.
C26_EvenSplit ==
    (/\ coreRet.op = "levelNode"
     /\ coreRet.exc = "none"
     /\ ~primaryChosen
     /\ coreRet.fromStats[SEC_ARG_POS] < 10
     /\ coreRet.fromStats[THIRD_ARG_POS] < 10) =>
        LET p == P_SUCC_VALS[coreRet.fromStats[PRIM_ARG_POS]]
            u == coreRet.roll
        IN /\ raisedStats = {SEC_ARG_POS} <=>
                 (p <= u /\ 2 * u < ONE + p)
           /\ raisedStats = {THIRD_ARG_POS} <=>
                 (ONE + p <= 2 * u /\ u < ONE)
           /\ u = p => raisedStats = {SEC_ARG_POS}

\* the draw equal to a rate above 0 raised the first secondary stat
C26_Witness ==
    /\ coreRet.op = "levelNode"
    /\ coreRet.exc = "none"
    /\ coreRet.roll = P_SUCC_VALS[coreRet.fromStats[PRIM_ARG_POS]]
    /\ coreRet.roll > 0
    /\ coreRet.fromStats[SEC_ARG_POS] < 10
    /\ coreRet.fromStats[THIRD_ARG_POS] < 10
    /\ raisedStats = {SEC_ARG_POS}

\* C27: a level-up returns the pair (stone cost, fragment cost) of the
\* primary level held before the stat is raised, also when it raises the
\* primary stat, and performTrial adds the fragment cost alone: each
\* counted enhancement adds the fragment cost of the primary level before
\* it, between 10 and 50, to the total.
C27_CostBeforeIncrement ==
    [][numEnhances' = numEnhances + 1 =>
          LET before == primaryStatLevel(statLevels) IN
          /\ \A u \in TrialDraws :
                levelNode(nodeLevel, statLevels, u).cost
                   = <<PB_ERDA_COST_VALS[before],
                       PB_ERDA_FRAG_COST_VALS[before]>>
          /\ totCost' = totCost + PB_ERDA_FRAG_COST_VALS[before]
          /\ totCost' - totCost >= 10
          /\ totCost' - totCost <= 50]_vars

\* two enhancements raised the primary stat from 1 to 3, where the
\* fragment cost goes from 10 to 20, and 10 was charged for each
C27_Witness ==
    /\ hpc = "loop"
    /\ totResets = 0
    /\ numEnhances = 2
    /\ primaryStatLevel(statLevels) = 3
    /\ totCost = 20

\* the tests of the escalation, each stated by itself: the failures passed
\* the tolerance in force; a hammer may be used; a clean slate scroll may
\* be used
restartDue == sl.curFailed > sl.innoAfterTol
extensionDue == sargs.useHammer /\ sl.availSlots = 0 /\ sl.eqpHammers < 2
repairDue == sl.availSlots = 0 /\ sl.curFailed > 0

\* the hammers used, passed or not
hammersOf(l) == l.pHammers + l.fHammers

\* C28: a pass of the loop does at most one of restart (innocence),
\* extension (hammer) and repair (clean slate), chosen in this order: when
\* the failures are above the tolerance after the scroll, the innocence
\* procedure runs and no hammer or clean slate scroll is used in that pass,
\* also with no slot left and fewer than 2 hammers used; a hammer is used
\* only when no restart is due, and the clean slate procedure runs only
\* when neither a restart nor a hammer is due.
C28_EscalationPriority ==
    [][/\ spc = "loop" =>
             /\ hammersOf(sl') = hammersOf(sl)
             /\ sl'.pInnos = sl.pInnos /\ sl'.pCSS = sl.pCSS
       /\ spc = "esc" =>
             IF restartDue THEN spc' = "inno" /\ sl' = sl
             ELSE IF extensionDue
             THEN /\ spc' = "loop"
                  /\ hammersOf(sl') = hammersOf(sl) + 1
                  /\ sl'.pInnos = sl.pInnos /\ sl'.pCSS = sl.pCSS
             ELSE IF repairDue THEN spc' = "css" /\ sl' = sl
             ELSE spc' = "loop" /\ sl' = sl
       /\ spc = "inno" =>
             /\ hammersOf(sl') = hammersOf(sl) /\ sl'.pCSS = sl.pCSS
             /\ \/ spc' = "inno" /\ sl'.pInnos = sl.pInnos
                \/ spc' = "loop" /\ sl'.pInnos = sl.pInnos + 1
       /\ spc = "css" =>
             /\ hammersOf(sl') = hammersOf(sl) /\ sl'.pInnos = sl.pInnos
             /\ \/ spc' = "css" /\ sl'.pCSS = sl.pCSS
                \/ spc' = "loop" /\ sl'.pCSS = sl.pCSS + 1]_vars

\* the innocence procedure runs in a pass where a hammer could have been
\* used: hammers enabled, no slot left, fewer than 2 hammers used
C28_Witness ==
    /\ spc = "inno"
    /\ restartDue
    /\ extensionDue

\* C29: right after a restart the slots are as at the start of the trial
\* (N slots available, none passed, no failure, no hammer used); the
\* costs and the pass, fail and save counters accumulated so far are kept,
\* and the restart adds one passed innocence scroll, the cost of the
\* innocence procedure and its failed tries.
C29_RestartFrame ==
    [][(spc = "inno" /\ spc' = "loop") =>
          /\ sl'.availSlots = sargs.eqpSlots
          /\ sl'.curPassed = 0
          /\ sl'.curFailed = 0
          /\ sl'.eqpHammers = 0
          /\ sl'.scrollCosts = sl.scrollCosts
          /\ sl'.cssCosts = sl.cssCosts
          /\ sl'.hammerCosts = sl.hammerCosts
          /\ sl'.pScrolls = sl.pScrolls /\ sl'.fScrolls = sl.fScrolls
          /\ sl'.pCSS = sl.pCSS /\ sl'.fCSS = sl.fCSS
          /\ sl'.pHammers = sl.pHammers /\ sl'.fHammers = sl.fHammers
          /\ sl'.numGS = sl.numGS
          /\ sl'.pInnos = sl.pInnos + 1
          /\ sl'.fInnos = sl.fInnos + sl.curFails
          /\ sl'.innoCosts = sl.innoCosts + sl.curCost + sargs.innoCost]_vars

\* a restart after a passed scroll, a failed scroll and a failed hammer:
\* the slots are as at the start, the counters are kept
C29_Witness ==
    /\ spc = "loop"
    /\ sl.lastOp = "inno"
    /\ sl.pInnos = 1
    /\ sl.pScrolls > 0 /\ sl.fScrolls > 0 /\ sl.fHammers > 0
    /\ sl.scrollCosts > 0 /\ sl.hammerCosts > 0
    /\ sl.availSlots = sargs.eqpSlots
    /\ sl.curPassed = 0 /\ sl.curFailed = 0 /\ sl.eqpHammers = 0

\* C30: with greedyFinish set, the tolerance in force in a trial is the
\* tolerance handed in plus the hammers used since the last restart or the
\* start of the trial; after a restart it is the tolerance handed in, and
\* it is never above the tolerance handed in + 2.
C30_GreedyTolerance ==
    (greedyAfterInno /\ spc \in {"loop", "esc", "inno", "css", "done"}) =>
        /\ sl.innoAfterTol = sargs.innoAfterTol + sl.eqpHammers
        /\ sl.innoAfterTol <= sargs.innoAfterTol + 2
        /\ sl.lastOp = "inno" => sl.innoAfterTol = sargs.innoAfterTol

\* after a restart earlier in the trial two hammers were used, and the
\* tolerance is the one handed in + 2
C30_Witness ==
    /\ greedyAfterInno
    /\ spc = "loop"
    /\ sl.pInnos > 0
    /\ sl.eqpHammers = 2
    /\ sl.innoAfterTol = sargs.innoAfterTol + 2

\* what a step of a trial does with the hammers
hammerStepRule ==
    spc \in {"loop", "esc", "inno", "css"} =>
          IF hammersOf(sl') # hammersOf(sl)
          THEN /\ spc = "esc"
               /\ sargs.useHammer
               /\ sl.availSlots = 0
               /\ sl.eqpHammers < 2
               /\ sl'.eqpHammers = sl.eqpHammers + 1
               /\ hammersOf(sl') = hammersOf(sl) + 1
               /\ sl'.hammerCosts = sl.hammerCosts + sargs.hammerCost
               /\ \/ /\ sl'.pHammers = sl.pHammers + 1
                     /\ sl'.availSlots = sl.availSlots + 1
                     /\ sl'.curFailed = sl.curFailed
                  \/ /\ sl'.fHammers = sl.fHammers + 1
                     /\ sl'.availSlots = sl.availSlots
                     /\ sl'.curFailed = sl.curFailed + 1
          ELSE /\ sl'.hammerCosts = sl.hammerCosts
               /\ \/ sl'.eqpHammers = sl.eqpHammers
                  \/ spc = "inno" /\ spc' = "loop" /\ sl'.eqpHammers = 0

\* C31: a hammer is used only when hammers are enabled and no slot is
\* available, and at most 2 are used between the start of the trial or a
\* restart and the next restart (eqpHammers counts them: it goes up by one
\* with each hammer, only a restart or a new trial sets it back, and it is
\* below 2 before a hammer); each hammer is charged hammerCost once, a
\* passed hammer adds 1 available slot and a failed one adds 1 failure.
C31_Extension == [][hammerStepRule]_vars

\* the second hammer since the start of the trial failed, after a passed
\* one
C31_Witness ==
    /\ spc = "loop"
    /\ sl.lastOp = "hammer"
    /\ sl.eqpHammers = 2
    /\ sl.pHammers = 1
    /\ sl.fHammers = 1
    /\ sl.curFailed > 0
    /\ sl.hammerCosts = 2 * sargs.hammerCost

\* the forced scroll in progress has charged its cost once per failed draw
forcedScrollRunning ==
    /\ spc = "inno" => sl.curCost = sl.curFails * sargs.innoCost
    /\ spc = "css" => sl.curCost = sl.curFails * sargs.cssCost

\* the forced scroll passes after k = sl.curFails failed draws: its
\* mechanism gets (k + 1) times the cost, k failures and one pass
forcedScrollPasses ==
    /\ (spc = "inno" /\ spc' = "loop") =>
          /\ sl'.innoCosts = sl.innoCosts + (sl.curFails + 1) * sargs.innoCost
          /\ sl'.fInnos = sl.fInnos + sl.curFails
          /\ sl'.pInnos = sl.pInnos + 1
          /\ sl'.cssCosts = sl.cssCosts
          /\ sl'.fCSS = sl.fCSS /\ sl'.pCSS = sl.pCSS
    /\ (spc = "css" /\ spc' = "loop") =>
          /\ sl'.cssCosts = sl.cssCosts + (sl.curFails + 1) * sargs.cssCost
          /\ sl'.fCSS = sl.fCSS + sl.curFails
          /\ sl'.pCSS = sl.pCSS + 1
          /\ sl'.innoCosts = sl.innoCosts
          /\ sl'.fInnos = sl.fInnos /\ sl'.pInnos = sl.pInnos

\* C32: simulateForcePassedScroll with k failed draws before the draw that
\* passes returns (k + 1) times the cost and k; the restart and the repair
\* each add that cost and these k failures to the counters of their
\* mechanism, and one pass.
C32_ForcedPass == [](forcedScrollRunning) /\ [][forcedScrollPasses]_vars

\* an innocence scroll passed after one failed draw, and later a clean
\* slate scroll after one
C32_Witness ==
    /\ spc = "loop"
    /\ sl.lastOp = "css"
    /\ sl.pInnos = 1 /\ sl.fInnos = 1
    /\ sl.innoCosts = 2 * sargs.innoCost
    /\ sl.pCSS = 1 /\ sl.fCSS = 1
    /\ sl.cssCosts = 2 * sargs.cssCost

\* every rate of the trial in progress that a pass depends on is above 0
ratesPositive ==
    /\ sargs.scrollRate > 0
    /\ sargs.innoRate > 0
    /\ sargs.cssRate > 0
    /\ sargs.useHammer => sargs.hammerRate > 0

\* C33: for every number of slots, tolerance, hammer and greedy setting,
\* when the scroll, innocence and clean slate rates are above 0 (and the
\* hammer rate when hammers are enabled), a trial whose draws are fair
\* reaches curPassed = totSlots and returns, and every forced scroll
\* procedure that starts passes in the end.
C33_TrialReturns ==
    /\ (spc \in {"loop", "esc", "inno", "css"} /\ ratesPositive)
           ~> (spc = "done" /\ sl.curPassed = sl.totSlots)
    /\ (spc \in {"inno", "css"} /\ ratesPositive)
           ~> (spc = "loop" /\ sl.lastOp \in {"inno", "css"})

\* a trial of MaxSlots slots with hammers and all rates at one half
\* returned
C33_Witness ==
    /\ spc = "done"
    /\ sargs.scrollRate = HalfRate
    /\ sargs.innoRate = HalfRate
    /\ sargs.cssRate = HalfRate
    /\ sargs.hammerRate = HalfRate
    /\ sargs.useHammer
    /\ sargs.eqpSlots = MaxSlots
    /\ sl.curPassed = sl.totSlots
    /\ sl.lastOp = "scroll"

\* C34: in a trial with a scroll rate of 0 and at least one slot to pass,
\* no slot is ever passed and the trial never returns.
C34_ZeroRateNeverPasses ==
    (/\ spc \in {"loop", "esc", "inno", "css", "done"}
     /\ sargs.scrollRate = 0
     /\ sl.totSlots >= 1) =>
        /\ sl.curPassed = 0
        /\ spc # "done"

\* C35: during the first performTrial call after forceInjectPolicy,
\* whatever its policy path and whatever was called before the injection,
\* no policy load has been attempted (so none has failed), and the policy
\* in force answers every state as the injected table does.
C35_InjectedTableInForce ==
    lastInject.call = "running" =>
        /\ hexaRet.exc \notin {"OSError", "TypeError"}
        /\ \A k \in PolicyKeys :
              policyLookup(policy, k) = policyLookup(lastInject.table, k)

\* C36: when performTrial falls back to the default policy because its
\* path cannot be loaded, the policy in force maps to reset exactly the
\* states (20, p) with 1 <= p < target: no reset entry of a table loaded or
\* injected before, or of an earlier higher target, is still in force.
C36_FallbackIsExactDefault ==
    (hpc = "loop" /\ lastInject.fellBack) =>
        \A k \in PolicyKeys :
            policyLookup(policy, k) = "reset" <=>
                (k[1] = MAX_LEVEL /\ k[2] \in 1..(hargs.target - 1))

\* C37: at every point of a trial the available slots, the passed slots
\* and the failed slots are >= 0, and together with the hammers not yet
\* used since the last innocence scroll (2 - eqpHammers with hammers, 0
\* without) they add up to the total target; so the trial returns with no
\* available slot and no failed slot.
C37_SlotConservation ==
    spc # "idle" =>
        /\ sl.availSlots >= 0 /\ sl.curPassed >= 0 /\ sl.curFailed >= 0
        /\ sl.availSlots + sl.curPassed + sl.curFailed
               + (IF sargs.useHammer THEN 2 - sl.eqpHammers ELSE 0)
             = sl.totSlots
        /\ spc = "done" => (sl.availSlots = 0 /\ sl.curFailed = 0)

\* a trial with hammers returned after a failed hammer, a clean slate
\* scroll and an innocence scroll
C37_Witness ==
    /\ spc = "done"
    /\ sargs.useHammer
    /\ sargs.eqpSlots >= 1
    /\ sl.fHammers >= 1
    /\ sl.pCSS >= 1
    /\ sl.pInnos >= 1

\* C38: in every result of a trial the total cost is the sum of the scroll,
\* innocence, clean slate and hammer costs; each of these costs is the
\* unit cost times the passed plus the failed count of its mechanism; the
\* guild saves are at most the failed scrolls; and the passed scrolls are
\* at least the total target, and equal to it when no innocence scroll
\* was used.
C38_ResultAccounting ==
    spc = "done" =>
        /\ sRet.totalTraceCost
               = sRet.scrollTraceCost + sRet.innoTraceCost
                    + sRet.cssTraceCost + sRet.hammerTraceCost
        /\ sRet.scrollTraceCost
               = sargs.scrollCost
                    * (sRet.numPassedScrolls + sRet.numFailedScrolls)
        /\ sRet.innoTraceCost
               = sargs.innoCost * (sRet.numPassedInnos + sRet.numFailedInnos)
        /\ sRet.cssTraceCost
               = sargs.cssCost * (sRet.numPassedCSS + sRet.numFailedCSS)
        /\ sRet.hammerTraceCost
               = sargs.hammerCost
                    * (sRet.numPassedHammers + sRet.numFailedHammers)
        /\ sRet.numGuildSaves <= sRet.numFailedScrolls
        /\ sRet.numPassedScrolls >= sl.totSlots
        /\ sRet.numPassedInnos = 0 => sRet.numPassedScrolls = sl.totSlots

\* a result with a guild save, a failed and a passed hammer, a clean slate
\* scroll and no innocence scroll
C38_Witness ==
    /\ spc = "done"
    /\ sRet.numGuildSaves >= 1
    /\ sRet.numFailedHammers >= 1
    /\ sRet.numPassedHammers >= 1
    /\ sRet.numPassedCSS >= 1
    /\ sRet.numPassedInnos = 0
    /\ sRet.numPassedScrolls = sargs.eqpSlots + 2

\* a call with a finite budget B > 0 and a target <= 10 that got past the
\* policy refresh
budgetedTrial ==
    /\ hpc \in {"loop", "returned", "raised"}
    /\ hargs.erdaFragLim > 0
    /\ hargs.target <= MAX_STAT_LEVEL
    /\ hexaRet.exc \notin {"TypeError", "OSError"}

\* C39: with a finite budget B > 0 and a target <= 10, for every policy and
\* all draws, the loop of performTrial makes at most B div 10 level-ups, a
\* reset that succeeds comes after 9 level-ups and a reset at a lower level
\* ends the call, so the loop is finite; and the call ends by returning or
\* by raising LevelCapExceeded or ResetTooEarly.
C39_BudgetedTrialEnds ==
    budgetedTrial =>
        /\ numEnhances <= hargs.erdaFragLim \div 10
        /\ 9 * totResets <= numEnhances + 9
        /\ hpc = "raised" =>
              hexaRet.exc \in {"LevelCapExceeded", "ResetTooEarly"}

\* C40: with an unlimited budget (erdaFragLim = 0) every normal return of
\* performTrial reports a core at node level 20: the primary level is at
\* least the target, the three stat levels add up to 22, and the level-ups
\* counted are at least 19 plus 9 for every reset.
C40_UnlimitedReturn ==
    (hpc = "returned" /\ hargs.erdaFragLim = 0) =>
        /\ nodeLevel = MAX_LEVEL
        /\ hexaRet.primaryLevel >= hargs.target
        /\ hexaRet.primaryLevel + hexaRet.secondaryLevel
               + hexaRet.thirdLevel = 22
        /\ hexaRet.totalEnhances >= 19 + 9 * hexaRet.numResets

\* an unlimited trial returned after one reset with a target above 1
C40_Witness ==
    /\ hpc = "returned"
    /\ hargs.erdaFragLim = 0
    /\ hargs.target >= 2
    /\ hexaRet.numResets = 1
    /\ hexaRet.primaryLevel >= hargs.target

====
